---- MODULE Spec2Model ----
(***************************************************************************)
(* Worker deduplication and ranking services of the Bali renovation        *)
(* marketplace backend (backend/app/services/worker_deduplication.py and   *)
(* backend/app/services/worker_matcher.py), the circuit breaker of         *)
(* backend/app/utils/resilience.py and the loops of the periodic jobs of   *)
(* backend/app/services/background_jobs.py.                                *)
(*                                                                         *)
(* Python values are tagged records: Null is None, Str(s) a str whose      *)
(* characters are the one-character strings of the sequence s, Num(n) a    *)
(* number, Bool(b) a bool, List(q) a list and SetList(S) the list built    *)
(* from a set (list(set): its order is not fixed by the language).         *)
(* A worker profile (a dict) is a function from the keys that are present  *)
(* to such values.  Ratings are kept in tenths (48 is 4.8), similarity     *)
(* ratios as fractions <<numerator, denominator>> and thresholds in        *)
(* hundredths (85 is 0.85).  Relevance components are kept in tenths (7 is *)
(* 0.7) and ranking scores in tenths of a point (925 is 92.5).  A raised   *)
(* exception is the value Error.                                           *)
(***************************************************************************)
EXTENDS Integers, Sequences, FiniteSets, TLC

VARIABLES workers, args, pc, result

vars == <<workers, args, pc, result>>

\* ------------------------------------------------------------ values

Null == [t |-> "null"]
Error == [t |-> "error"]
Str(s) == [t |-> "str", v |-> s]
Num(n) == [t |-> "num", v |-> n]
Bool(b) == [t |-> "bool", v |-> b]
\* A str the code only compares or copies (a tier, a place id, a tag), whole.
Atom(a) == [t |-> "atom", v |-> a]
List(q) == [t |-> "list", v |-> q]
SetList(S) == [t |-> "setlist", v |-> S]

\* A local variable: the value of e, computed once, then used by Body.
Once(e, Body(_)) == CHOOSE r \in {Body(x) : x \in {e}} : TRUE

\* dict.get(key): None when the key is absent.
Get(w, key) == IF key \in DOMAIN w THEN w[key] ELSE Null

\* dict.get(key, default).
GetOr(w, key, default) == IF key \in DOMAIN w THEN w[key] ELSE default

\* Python truthiness of a value.
Truthy(x) ==
  CASE x.t = "null" -> FALSE
    [] x.t = "str" -> Len(x.v) > 0
    [] x.t = "atom" -> x.v # ""
    [] x.t = "num" -> x.v # 0
    [] x.t = "bool" -> x.v
    [] x.t = "list" -> Len(x.v) > 0
    [] x.t = "setlist" -> x.v # {}
    [] OTHER -> TRUE

\* The elements of a list value.
Elems(x) ==
  CASE x.t = "list" -> {x.v[i] : i \in 1..Len(x.v)}
    [] x.t = "setlist" -> x.v
    [] OTHER -> {}

\* ------------------------------------------------------------ characters

Digits == {"0", "1", "2", "3", "4", "5", "6", "7", "8", "9"}

LowerLetters ==
  <<"a", "b", "c", "d", "e", "f", "g", "h", "i", "j", "k", "l", "m",
    "n", "o", "p", "q", "r", "s", "t", "u", "v", "w", "x", "y", "z">>

UpperLetters ==
  <<"A", "B", "C", "D", "E", "F", "G", "H", "I", "J", "K", "L", "M",
    "N", "O", "P", "Q", "R", "S", "T", "U", "V", "W", "X", "Y", "Z">>

LowerSet == {LowerLetters[i] : i \in 1..26}

UpperSet == {UpperLetters[i] : i \in 1..26}

Whitespace == {" "}

\* A decimal digit outside ASCII: \d of a str pattern matches it, [0-9]
\* does not.
ArabicIndicThree == "ARABIC-INDIC DIGIT THREE"

\* \d of the regular expressions.
DecimalDigits == Digits \cup {ArabicIndicThree}

\* \w of the regular expressions: letters, digits and the underscore.
WordChars == LowerSet \cup UpperSet \cup Digits \cup {"_"}

\* str.lower() on one character.
LowerChar(c) ==
  IF c \in UpperSet
  THEN LowerLetters[CHOOSE i \in 1..26 : UpperLetters[i] = c]
  ELSE c

\* str.lower()
Lower(s) == [i \in 1..Len(s) |-> LowerChar(s[i])]

\* s[from:] (1-based, from may exceed the length).
Drop(s, n) == IF n >= Len(s) THEN <<>> ELSE SubSeq(s, n + 1, Len(s))

\* str.startswith
StartsWith(s, p) == Len(s) >= Len(p) /\ SubSeq(s, 1, Len(p)) = p

\* p occurs in s at position i.
OccursAt(s, p, i) ==
  i >= 1 /\ i + Len(p) - 1 <= Len(s) /\ SubSeq(s, i, i + Len(p) - 1) = p

\* Python's "p in s" on strings.
Contains(s, p) == \E i \in 1..(Len(s) + 1) : OccursAt(s, p, i)

\* The characters of s that satisfy Keep, in order.
RECURSIVE FilterChars(_, _)
FilterChars(s, keep) ==
  IF s = <<>> THEN <<>>
  ELSE (IF Head(s) \in keep THEN <<Head(s)>> ELSE <<>>)
         \o FilterChars(Tail(s), keep)

\* ------------------------------------------------------------ phone

INDONESIA_COUNTRY_CODE == <<"+", "6", "2">>

\* (?:\+62|62|0)
PhonePrefixes == {<<"+", "6", "2">>, <<"6", "2">>, <<"0">>}

AllDigits(s) == \A i \in 1..Len(s) : s[i] \in Digits

\* ^(?:\+62|62|0)8[0-9]{8,11}$
MatchesMobile(s) ==
  \E p \in PhonePrefixes :
    /\ StartsWith(s, p)
    /\ LET rest == Drop(s, Len(p))
       IN /\ Len(rest) >= 1 /\ rest[1] = "8"
          /\ Len(rest) - 1 >= 8 /\ Len(rest) - 1 <= 11
          /\ AllDigits(Drop(rest, 1))

\* ^(?:\+62|62|0)(?:2[1-9]|3[1-9]|4[1-9]|5[1-9]|6[1-9])[0-9]{6,8}$
MatchesLandline(s) ==
  \E p \in PhonePrefixes :
    /\ StartsWith(s, p)
    /\ LET rest == Drop(s, Len(p))
       IN /\ Len(rest) >= 2
          /\ rest[1] \in {"2", "3", "4", "5", "6"}
          /\ rest[2] \in Digits \ {"0"}
          /\ Len(rest) - 2 >= 6 /\ Len(rest) - 2 <= 8
          /\ AllDigits(Drop(rest, 2))

PHONE_PATTERNS(s) == MatchesMobile(s) \/ MatchesLandline(s)

\* normalize_phone_number returning the string without validating it.
normalize_phone_number_unvalidated(phone) ==
  IF ~Truthy(phone) THEN Null
  ELSE
    Once(FilterChars(phone.v, DecimalDigits \cup {"+"}), LAMBDA kept :
    Once(IF StartsWith(kept, <<"+">>) THEN Drop(kept, 1) ELSE kept, LAMBDA cleaned :
    Once(IF StartsWith(cleaned, <<"6", "2">>) THEN <<"+">> \o cleaned
         ELSE IF StartsWith(cleaned, <<"0">>)
              THEN INDONESIA_COUNTRY_CODE \o Drop(cleaned, 1)
         ELSE IF StartsWith(cleaned, <<"8">>)
              THEN INDONESIA_COUNTRY_CODE \o cleaned
         ELSE <<>>, LAMBDA normalized :
      IF normalized = <<>> THEN Null
      ELSE Str(normalized))))

\* normalize_phone_number without the branch for a bare mobile number.
normalize_phone_number_no_bare_8(phone) ==
  IF ~Truthy(phone) THEN Null
  ELSE
    Once(FilterChars(phone.v, DecimalDigits \cup {"+"}), LAMBDA kept :
    Once(IF StartsWith(kept, <<"+">>) THEN Drop(kept, 1) ELSE kept, LAMBDA cleaned :
    Once(IF StartsWith(cleaned, <<"6", "2">>) THEN <<"+">> \o cleaned
         ELSE IF StartsWith(cleaned, <<"0">>)
              THEN INDONESIA_COUNTRY_CODE \o Drop(cleaned, 1)
         ELSE <<>>, LAMBDA normalized :
      IF normalized = <<>> THEN Null
      ELSE IF PHONE_PATTERNS(normalized) THEN Str(normalized)
      ELSE Null)))

\* normalize_phone_number: a Str value or Null.
normalize_phone_number(phone) ==
  IF ~Truthy(phone) THEN Null
  ELSE
    Once(FilterChars(phone.v, DecimalDigits \cup {"+"}), LAMBDA kept :
    Once(IF StartsWith(kept, <<"+">>) THEN Drop(kept, 1) ELSE kept, LAMBDA cleaned :
    Once(IF StartsWith(cleaned, <<"6", "2">>) THEN <<"+">> \o cleaned
         ELSE IF StartsWith(cleaned, <<"0">>)
              THEN INDONESIA_COUNTRY_CODE \o Drop(cleaned, 1)
         ELSE IF StartsWith(cleaned, <<"8">>)
              THEN INDONESIA_COUNTRY_CODE \o cleaned
         ELSE <<>>, LAMBDA normalized :
      IF normalized = <<>> THEN Null
      ELSE IF PHONE_PATTERNS(normalized) THEN Str(normalized)
      ELSE Null)))

\* ------------------------------------------------------------ names

IsWordAt(s, k) == k >= 1 /\ k <= Len(s) /\ s[k] \in WordChars

\* \b between s[k-1] and s[k].
Boundary(s, k) == IsWordAt(s, k - 1) # IsWordAt(s, k)

\* Length of the match at position i of \b tok \.? \b (when dot) or of
\* \b tok \b (when lead and not dot) or of tok \b (neither); 0 when there
\* is none.  The optional dot is greedy: taken first, given up when no
\* boundary follows it.
MatchLen(s, i, tok, lead, dot) ==
  LET n == Len(tok)
  IN IF ~OccursAt(s, tok, i) \/ (lead /\ ~Boundary(s, i)) THEN 0
     ELSE IF dot /\ OccursAt(s, <<".">>, i + n) /\ Boundary(s, i + n + 1)
          THEN n + 1
     ELSE IF Boundary(s, i + n) THEN n
     ELSE 0

\* re.sub(pattern, "", s): the leftmost non-overlapping matches removed.
RECURSIVE ReSubFrom(_, _, _, _, _)
ReSubFrom(s, i, tok, lead, dot) ==
  IF i > Len(s) THEN <<>>
  ELSE Once(MatchLen(s, i, tok, lead, dot), LAMBDA m :
         IF m > 0 THEN ReSubFrom(s, i + m, tok, lead, dot)
         ELSE <<s[i]>> \o ReSubFrom(s, i + 1, tok, lead, dot))

ReSub(s, tok, lead, dot) == ReSubFrom(s, 1, tok, lead, dot)

\* The entity patterns, in the order they are applied: <<token, \.? >>.
entity_types ==
  << <<(<<"p", "t">>), TRUE>>,
     <<(<<"c", "v">>), TRUE>>,
     <<(<<"u", "d">>), TRUE>>,
     <<(<<"t", "o", "k", "o">>), FALSE>>,
     <<(<<"j", "a", "s", "a">>), FALSE>>,
     <<(<<"l", "l", "c">>), TRUE>>,
     <<(<<"i", "n", "c">>), TRUE>>,
     <<(<<"l", "t", "d">>), TRUE>> >>

RECURSIVE RemoveEntities(_, _)
RemoveEntities(s, k) ==
  IF k > Len(entity_types) THEN s
  ELSE Once(ReSub(s, entity_types[k][1], TRUE, entity_types[k][2]),
            LAMBDA removed : RemoveEntities(removed, k + 1))

\* " ".join(s.split()): runs of whitespace become one space, none at the ends.
RECURSIVE JoinSplit(_, _)
JoinSplit(s, pending) ==
  IF s = <<>> THEN <<>>
  ELSE IF Head(s) \in Whitespace THEN JoinSplit(Tail(s), TRUE)
  ELSE (IF pending THEN <<" ">> ELSE <<>>) \o <<Head(s)>>
         \o JoinSplit(Tail(s), FALSE)

RECURSIVE SkipSpaces(_)
SkipSpaces(s) ==
  IF s # <<>> /\ Head(s) \in Whitespace THEN SkipSpaces(Tail(s)) ELSE s

\* normalize_business_name on the characters of a str.
normalize_business_name(name) ==
  Once(Lower(name) \o <<>>, LAMBDA lowered :
  Once(RemoveEntities(lowered, 1), LAMBDA noEntity :
  Once(ReSub(noEntity, <<"'", "s">>, FALSE, FALSE), LAMBDA noPoss :
  Once(FilterChars(noPoss, LowerSet \cup Digits \cup Whitespace), LAMBDA alnum :
  Once(SkipSpaces(alnum), LAMBDA stripped : JoinSplit(stripped, FALSE))))))

\* ------------------------------------------------------------ similarity

\* a[i..i+k-1] = b[j..j+k-1] inside a[alo..ahi], b[blo..bhi] (1-based, closed).
BlockAt(a, b, i, j, k, ahi, bhi) ==
  /\ i + k - 1 <= ahi /\ j + k - 1 <= bhi
  /\ \A d \in 0..(k - 1) : a[i + d] = b[j + d]

\* SequenceMatcher.find_longest_match: the longest block, of those the one
\* starting earliest in a, of those the one starting earliest in b.
find_longest_match(a, b, alo, ahi, blo, bhi) ==
  Once({k \in 1..(ahi - alo + 1) :
          \E i \in alo..ahi, j \in blo..bhi : BlockAt(a, b, i, j, k, ahi, bhi)},
       LAMBDA sizes :
    IF sizes = {} THEN <<alo, blo, 0>>
    ELSE Once(CHOOSE x \in sizes : \A y \in sizes : y <= x, LAMBDA k :
         Once(CHOOSE x \in alo..ahi :
                /\ \E j \in blo..bhi : BlockAt(a, b, x, j, k, ahi, bhi)
                /\ \A y \in alo..(x - 1) :
                     ~\E j \in blo..bhi : BlockAt(a, b, y, j, k, ahi, bhi),
              LAMBDA i :
         Once(CHOOSE x \in blo..bhi :
                /\ BlockAt(a, b, i, x, k, ahi, bhi)
                /\ \A y \in blo..(x - 1) : ~BlockAt(a, b, i, y, k, ahi, bhi),
              LAMBDA j : <<i, j, k>>))))

\* Sum of the sizes of SequenceMatcher.get_matching_blocks.
RECURSIVE MatchedChars(_, _, _, _, _, _)
MatchedChars(a, b, alo, ahi, blo, bhi) ==
  IF alo > ahi \/ blo > bhi THEN 0
  ELSE Once(find_longest_match(a, b, alo, ahi, blo, bhi), LAMBDA m :
         IF m[3] = 0 THEN 0
         ELSE m[3]
              + MatchedChars(a, b, alo, m[1] - 1, blo, m[2] - 1)
              + MatchedChars(a, b, m[1] + m[3], ahi, m[2] + m[3], bhi))

\* SequenceMatcher(None, a, b).ratio() = 2.0 * matches / length, as a fraction.
SequenceRatio(a, b) ==
  IF Len(a) + Len(b) = 0 THEN <<1, 1>>
  ELSE <<2 * MatchedChars(a, b, 1, Len(a), 1, Len(b)), Len(a) + Len(b)>>

\* calculate_name_similarity on the characters of two strs.
calculate_name_similarity(name1, name2) ==
  Once(normalize_business_name(name1), LAMBDA norm1 :
  Once(normalize_business_name(name2), LAMBDA norm2 :
    IF norm1 = norm2 THEN <<1, 1>> ELSE SequenceRatio(norm1, norm2)))

\* ratio >= threshold, the threshold in hundredths.
AtLeast(ratio, threshold) == ratio[1] * 100 >= threshold * ratio[2]

\* ------------------------------------------------------------ sample strings

\* Raw phones: two spellings of one mobile number and another mobile number.
PhoneA1 == Str(<<"0", "8", "1", "2", "-", "3", "4", "5", "-", "6", "7", "8">>)
PhoneA2 == Str(<<"+", "6", "2", " ", "8", "1", "2", " ", "3", "4", "5", " ", "6", "7", "8">>)
PhoneB == Str(<<"0", "8", "5", "6", "7", "8", "9", "0", "1", "2">>)

NamePool == Str(<<"P", "T", ".", " ", "B", "a", "l", "i", " ", "P", "o", "o", "l">>)
NamePool2 == Str(<<"B", "a", "l", "i", " ", "P", "o", "o", "l", " ", "2">>)
NameTile == Str(<<"U", "b", "u", "d", " ", "T", "i", "l", "e">>)

LocUbud == Str(<<"U", "b", "u", "d">>)
LocUbudRoad == Str(<<"J", "l", " ", "R", "a", "y", "a", " ", "u", "b", "u", "d">>)
LocCanggu == Str(<<"C", "a", "n", "g", "g", "u">>)

\* The business names of the sample profiles ("" stands for a missing name).
SampleNames == {<<>>, NamePool.v, NamePool2.v, NameTile.v}

\* calculate_name_similarity on the sample names, computed once (@@ makes
\* the function an explicit table).
NameSimilarityCache ==
  [n \in SampleNames \X SampleNames |-> calculate_name_similarity(n[1], n[2])]
    @@ <<>>

\* calculate_name_similarity, through the cache for the sample names.
NameSimilarity(name1, name2) ==
  IF <<name1, name2>> \in DOMAIN NameSimilarityCache
  THEN NameSimilarityCache[<<name1, name2>>]
  ELSE calculate_name_similarity(name1, name2)

\* ------------------------------------------------------------ duplicates

\* a.lower() of worker.get("location", ""): Error when the value is None.
LocationLower(w) ==
  LET loc == GetOr(w, "location", Str(<<>>))
  IN IF loc.t = "str" THEN Str(Lower(loc.v) \o <<>>) ELSE Error

\* are_workers_duplicates comparing the phones as written, not normalized.
are_workers_duplicates_raw_phone(worker1, worker2, name_threshold, phone_match_required) ==
  LET phone1 == Get(worker1, "phone")
      phone2 == Get(worker2, "phone")
      place_id1 == Get(worker1, "gmaps_place_id")
      place_id2 == Get(worker2, "gmaps_place_id")
  IN IF Truthy(phone1) /\ Truthy(phone2) /\ phone1 = phone2 THEN Bool(TRUE)
     ELSE IF phone_match_required /\ Truthy(phone1) /\ Truthy(phone2)
          THEN Bool(FALSE)
     ELSE Bool(Truthy(place_id1) /\ Truthy(place_id2) /\ place_id1 = place_id2)

\* are_workers_duplicates consulting the place ids before the phone
\* requirement.
are_workers_duplicates_place_first(worker1, worker2, name_threshold, phone_match_required) ==
  Once(normalize_phone_number(Get(worker1, "phone")), LAMBDA phone1 :
  Once(normalize_phone_number(Get(worker2, "phone")), LAMBDA phone2 :
    LET place_id1 == Get(worker1, "gmaps_place_id")
        place_id2 == Get(worker2, "gmaps_place_id")
    IN IF Truthy(phone1) /\ Truthy(phone2) /\ phone1 = phone2 THEN Bool(TRUE)
       ELSE IF Truthy(place_id1) /\ Truthy(place_id2) /\ place_id1 = place_id2
            THEN Bool(TRUE)
       ELSE Bool(FALSE)))

\* are_workers_duplicates: Bool(TRUE), Bool(FALSE), or Error when the call
\* raises (a business_name or a location that is None).
are_workers_duplicates(worker1, worker2, name_threshold, phone_match_required) ==
  Once(normalize_phone_number(Get(worker1, "phone")), LAMBDA phone1 :
  Once(normalize_phone_number(Get(worker2, "phone")), LAMBDA phone2 :
    LET place_id1 == Get(worker1, "gmaps_place_id")
        place_id2 == Get(worker2, "gmaps_place_id")
        name1 == GetOr(worker1, "business_name", Str(<<>>))
        name2 == GetOr(worker2, "business_name", Str(<<>>))
    IN IF Truthy(phone1) /\ Truthy(phone2) /\ phone1 = phone2 THEN Bool(TRUE)
       ELSE IF phone_match_required /\ Truthy(phone1) /\ Truthy(phone2)
            THEN Bool(FALSE)
       ELSE IF Truthy(place_id1) /\ Truthy(place_id2) /\ place_id1 = place_id2
            THEN Bool(TRUE)
       ELSE IF name1.t # "str" \/ name2.t # "str" THEN Error
       ELSE IF AtLeast(NameSimilarity(name1.v, name2.v), name_threshold)
            THEN Once(LocationLower(worker1), LAMBDA loc1 :
                 Once(LocationLower(worker2), LAMBDA loc2 :
                   IF loc1.t = "error" \/ loc2.t = "error" THEN Error
                   ELSE Bool(/\ Truthy(loc1) /\ Truthy(loc2)
                             /\ (Contains(loc2.v, loc1.v) \/ Contains(loc1.v, loc2.v)))))
       ELSE Bool(FALSE)))

\* ------------------------------------------------------------ merge

\* The default source_priority of merge_worker_profiles.
source_priority(tier) ==
  CASE tier = Atom("platform") -> 4
    [] tier = Atom("manual_curated") -> 3
    [] tier = Atom("google_maps") -> 2
    [] tier = Atom("olx") -> 1
    [] OTHER -> 0

\* The sort key: source_priority.get(w.get("source_tier", ""), 0).
PriorityOf(w) == source_priority(GetOr(w, "source_tier", Atom("")))

SelectPriority(ws, p) == SelectSeq(ws, LAMBDA w : PriorityOf(w) = p)

\* sorted(workers, key=priority, reverse=True): stable, equal keys keep
\* their input order.
sorted_workers(ws) ==
  SelectPriority(ws, 4) \o SelectPriority(ws, 3) \o SelectPriority(ws, 2)
    \o SelectPriority(ws, 1) \o SelectPriority(ws, 0)

\* d[key] = value
Put(d, key, value) ==
  Once(d, LAMBDA m :
    [k \in DOMAIN m \cup {key} |-> IF k = key THEN value ELSE m[k]] @@ <<>>)

\* The gap-fill with every later worker overwriting what is there.
FillMissing_overwrite(merged, worker) ==
  [k \in DOMAIN merged \cup DOMAIN worker |->
     IF k \in DOMAIN worker THEN worker[k] ELSE merged[k]]

\* for key, value in worker.items():
\*     if key not in merged or merged[key] is None: merged[key] = value
FillMissing(merged, worker) ==
  [k \in DOMAIN merged \cup DOMAIN worker |->
     IF k \in DOMAIN merged /\ (merged[k] # Null \/ k \notin DOMAIN worker)
     THEN merged[k]
     ELSE worker[k]]

\* The gap-fill loop over the sorted workers from index k on.
RECURSIVE FillAll(_, _, _)
FillAll(merged, sorted, k) ==
  IF k > Len(sorted) THEN merged
  ELSE Once(FillMissing(merged, sorted[k]) @@ <<>>,
            LAMBDA filled : FillAll(filled, sorted, k + 1))

\* The rating read from gmaps_rating alone.
RatingOf_gmaps_only(w) ==
  IF Truthy(Get(w, "gmaps_rating")) THEN Get(w, "gmaps_rating").v ELSE 0

\* worker.get("gmaps_rating") or worker.get("olx_rating") or 0.0, in tenths.
RatingOf(w) ==
  IF Truthy(Get(w, "gmaps_rating")) THEN Get(w, "gmaps_rating").v
  ELSE IF Truthy(Get(w, "olx_rating")) THEN Get(w, "olx_rating").v
  ELSE 0

\* The running maximum of the ratings, from 0.0.
RECURSIVE MaxRating(_, _, _)
MaxRating(ws, k, max_rating) ==
  IF k > Len(ws) THEN max_rating
  ELSE MaxRating(ws, k + 1,
                 IF RatingOf(ws[k]) > max_rating THEN RatingOf(ws[k])
                 ELSE max_rating)

\* worker.get("gmaps_review_count", 0) and worker.get("olx_review_count", 0).
ReviewTerms(w) ==
  <<GetOr(w, "gmaps_review_count", Num(0)), GetOr(w, "olx_review_count", Num(0))>>

\* total_reviews += ... over the workers from index k on.
RECURSIVE TotalReviews(_, _, _)
TotalReviews(ws, k, total_reviews) ==
  IF k > Len(ws) THEN total_reviews
  ELSE TotalReviews(ws, k + 1,
                    total_reviews + ReviewTerms(ws[k])[1].v + ReviewTerms(ws[k])[2].v)

\* int += None raises TypeError.
ReviewsRaise(ws) ==
  \E k \in 1..Len(ws) : \E x \in 1..2 : ReviewTerms(ws[k])[x].t # "num"

\* The list of the first worker alone.
UnionOf_first(ws, key) == Elems(Get(ws[1], key))

\* The set a key's list values add up to over the workers that have it truthy.
UnionOf(ws, key) ==
  UNION {Elems(Get(ws[k], key)) : k \in {x \in 1..Len(ws) : Truthy(Get(ws[x], key))}}

\* The aggregated fields written over the gap-filled profile.
UpdateAggregates(merged, ws) ==
  LET all_specializations == UnionOf(ws, "specializations")
      all_categories == UnionOf(ws, "gmaps_categories")
      max_rating == MaxRating(ws, 1, 0)
      total_reviews == TotalReviews(ws, 1, 0)
      m1 == Put(merged, "specializations", SetList(all_specializations))
      m2 == Put(m1, "gmaps_categories",
                IF all_categories # {} THEN SetList(all_categories)
                ELSE Get(m1, "gmaps_categories"))
      m3 == IF max_rating > 0 THEN Put(m2, "gmaps_rating", Num(max_rating)) ELSE m2
  IN IF total_reviews > 0 THEN Put(m3, "gmaps_review_count", Num(total_reviews))
     ELSE m3

\* The merge metadata with the sources listed in priority order.
MarkMerged_sorted(merged, ws) ==
  Put(Put(Put(merged, "is_merged", Bool(TRUE)),
          "source_count", Num(Len(ws))),
      "merged_sources",
      List([k \in 1..Len(ws) |-> Get(sorted_workers(ws)[k], "source_tier")]))

\* merged["is_merged"], merged["source_count"], merged["merged_sources"].
MarkMerged(merged, ws) ==
  Put(Put(Put(merged, "is_merged", Bool(TRUE)),
          "source_count", Num(Len(ws))),
      "merged_sources", List([k \in 1..Len(ws) |-> Get(ws[k], "source_tier")]))

\* merge_worker_profiles attaching the merge metadata to a single profile
\* too.
merge_worker_profiles_mark_single(ws) ==
  IF Len(ws) = 0 THEN <<>>
  ELSE IF ReviewsRaise(ws) THEN Error
  ELSE Once(sorted_workers(ws), LAMBDA sorted :
       Once(FillAll(sorted[1], sorted, 1), LAMBDA filled :
         MarkMerged(UpdateAggregates(filled, sorted), ws)))

\* merge_worker_profiles raising on an empty list.
merge_worker_profiles_raise_empty(ws) ==
  IF Len(ws) = 0 THEN Error
  ELSE IF Len(ws) = 1 THEN ws[1]
  ELSE IF ReviewsRaise(ws) THEN Error
  ELSE Once(sorted_workers(ws), LAMBDA sorted :
       Once(FillAll(sorted[1], sorted, 1), LAMBDA filled :
         MarkMerged(UpdateAggregates(filled, sorted), ws)))

\* merge_worker_profiles with the default source_priority: the merged
\* profile, or Error when the call raises.
merge_worker_profiles(ws) ==
  IF Len(ws) = 0 THEN <<>>
  ELSE IF Len(ws) = 1 THEN ws[1]
  ELSE IF ReviewsRaise(ws) THEN Error
  ELSE Once(sorted_workers(ws), LAMBDA sorted :
       Once(FillAll(sorted[1], sorted, 1), LAMBDA filled :
         MarkMerged(UpdateAggregates(filled, sorted), ws)))

\* The writes of the merge going to the highest-priority input record itself
\* (merged = sorted_workers[0]): its position in ws.
merged_alias_base(ws) ==
  CHOOSE k \in 1..Len(ws) :
    /\ \A j \in 1..Len(ws) : PriorityOf(ws[j]) <= PriorityOf(ws[k])
    /\ \A j \in 1..(k - 1) : PriorityOf(ws[j]) < PriorityOf(ws[k])

\* merged = sorted_workers[0].copy(): the position in ws of the record the
\* writes to merged go to, 0 when merged is a record of its own.
merged_alias(ws) == 0

\* The input list after merge_worker_profiles(ws): every write of the call
\* goes to merged.
workers_after_merge(ws) ==
  IF Len(ws) < 2 THEN ws
  ELSE Once(merged_alias(ws), LAMBDA target :
         IF target = 0 THEN ws
         ELSE Once(merge_worker_profiles(ws), LAMBDA merged :
                IF merged = Error THEN ws
                ELSE [k \in 1..Len(ws) |-> IF k = target THEN merged ELSE ws[k]] \o <<>>))

\* ------------------------------------------------------------ deduplicate

\* The inner loop comparing each later profile with the newest member of
\* the group instead of its seed.
RECURSIVE ScanGroup_chained(_, _, _, _, _, _)
ScanGroup_chained(ws, i, j, group, processed, name_threshold) ==
  IF j > Len(ws) THEN [t |-> "scan", group |-> group, processed |-> processed]
  ELSE IF j <= i \/ j \in processed
       THEN ScanGroup_chained(ws, i, j + 1, group, processed, name_threshold)
  ELSE Once(are_workers_duplicates(ws[group[Len(group)]], ws[j],
                                   name_threshold, TRUE), LAMBDA dup :
         IF dup.t = "error" THEN Error
         ELSE IF dup.v
              THEN ScanGroup_chained(ws, i, j + 1, Append(group, j),
                                     processed \cup {j}, name_threshold)
         ELSE ScanGroup_chained(ws, i, j + 1, group, processed, name_threshold))

\* The inner loop not marking the duplicates it finds as processed.
RECURSIVE ScanGroup_unmarked(_, _, _, _, _, _)
ScanGroup_unmarked(ws, i, j, group, processed, name_threshold) ==
  IF j > Len(ws) THEN [t |-> "scan", group |-> group, processed |-> processed]
  ELSE IF j <= i \/ j \in processed
       THEN ScanGroup_unmarked(ws, i, j + 1, group, processed, name_threshold)
  ELSE Once(are_workers_duplicates(ws[i], ws[j], name_threshold, TRUE),
            LAMBDA dup :
         IF dup.t = "error" THEN Error
         ELSE IF dup.v
              THEN ScanGroup_unmarked(ws, i, j + 1, Append(group, j),
                                      processed, name_threshold)
         ELSE ScanGroup_unmarked(ws, i, j + 1, group, processed, name_threshold))

\* The inner loop of deduplicate_workers for the seed at index i, from
\* index j on: the group and the processed set (indices into ws), or Error.
RECURSIVE ScanGroup(_, _, _, _, _, _)
ScanGroup(ws, i, j, group, processed, name_threshold) ==
  IF j > Len(ws) THEN [t |-> "scan", group |-> group, processed |-> processed]
  ELSE IF j <= i \/ j \in processed
       THEN ScanGroup(ws, i, j + 1, group, processed, name_threshold)
  ELSE Once(are_workers_duplicates(ws[i], ws[j], name_threshold, TRUE),
            LAMBDA dup :
         IF dup.t = "error" THEN Error
         ELSE IF dup.v
              THEN ScanGroup(ws, i, j + 1, Append(group, j),
                             processed \cup {j}, name_threshold)
         ELSE ScanGroup(ws, i, j + 1, group, processed, name_threshold))

\* The outer loop from index i on: List of the duplicate groups, or Error.
RECURSIVE FindGroups(_, _, _, _, _)
FindGroups(ws, i, processed, duplicate_groups, name_threshold) ==
  IF i > Len(ws) THEN List(duplicate_groups)
  ELSE IF i \in processed
       THEN FindGroups(ws, i + 1, processed, duplicate_groups, name_threshold)
  ELSE Once(ScanGroup(ws, i, 1, <<i>>, processed \cup {i}, name_threshold),
            LAMBDA scan :
         IF scan.t = "error" THEN Error
         ELSE FindGroups(ws, i + 1, scan.processed,
                         Append(duplicate_groups, scan.group), name_threshold))

\* The duplicate groups of a list, each a sequence of indices: List or Error.
DuplicateGroups(ws, name_threshold) == FindGroups(ws, 1, {}, <<>>, name_threshold)

\* The profiles of a group of indices.
GroupOf(ws, group) == [k \in 1..Len(group) |-> ws[group[k]]]

\* The merge loop marking every group, also a group of one, as merged.
MergeGroups_mark_all(ws, groups) ==
  [g \in 1..Len(groups) |->
     IF Len(groups[g]) = 1
     THEN MarkMerged(ws[groups[g][1]], GroupOf(ws, groups[g]))
     ELSE merge_worker_profiles(GroupOf(ws, groups[g]))]

\* The merge loop: a group of one is kept as is, a larger one is merged.
MergeGroups(ws, groups) ==
  [g \in 1..Len(groups) |->
     IF Len(groups[g]) = 1 THEN ws[groups[g][1]]
     ELSE merge_worker_profiles(GroupOf(ws, groups[g]))]

\* deduplicate_workers: List of the deduplicated profiles, or Error when
\* the call raises.
deduplicate_workers(ws, name_threshold) ==
  IF Len(ws) = 0 THEN List(<<>>)
  ELSE Once(DuplicateGroups(ws, name_threshold), LAMBDA groups :
         IF groups.t = "error" THEN Error
         ELSE Once(MergeGroups(ws, groups.v) \o <<>>, LAMBDA deduplicated :
                IF \E g \in 1..Len(deduplicated) : deduplicated[g] = Error
                THEN Error
                ELSE List(deduplicated)))

\* The input list after deduplicate_workers(ws): the writes of the merge of
\* each group of two or more.
workers_after_deduplicate(ws, name_threshold) ==
  Once(DuplicateGroups(ws, name_threshold), LAMBDA groups :
    IF groups.t = "error" THEN ws
    ELSE [k \in 1..Len(ws) |->
            LET g == CHOOSE h \in 1..Len(groups.v) :
                       \E x \in 1..Len(groups.v[h]) : groups.v[h][x] = k
                x == CHOOSE y \in 1..Len(groups.v[g]) : groups.v[g][y] = k
            IN workers_after_merge(GroupOf(ws, groups.v[g]))[x]] \o <<>>)

\* ------------------------------------------------------------ ranking

\* PROJECT_TYPE_TO_SPECIALIZATION: <<project type, specialization>>.
PROJECT_TYPE_TO_SPECIALIZATION ==
  { <<<<"p", "o", "o", "l", "_", "c", "o", "n", "s", "t", "r", "u", "c", "t", "i", "o", "n">>,
      Atom("pool")>>,
    <<<<"p", "o", "o", "l", "_", "r", "e", "n", "o", "v", "a", "t", "i", "o", "n">>,
      Atom("pool")>>,
    <<<<"p", "o", "o", "l", "_", "i", "n", "s", "t", "a", "l", "l", "a", "t", "i", "o", "n">>,
      Atom("pool")>>,
    <<<<"p", "o", "o", "l", "_", "r", "e", "p", "a", "i", "r">>,
      Atom("pool")>>,
    <<<<"p", "o", "o", "l", "_", "m", "a", "i", "n", "t", "e", "n", "a", "n", "c", "e">>,
      Atom("pool")>>,
    <<<<"s", "w", "i", "m", "m", "i", "n", "g", "_", "p", "o", "o", "l">>,
      Atom("pool")>>,
    <<<<"b", "a", "t", "h", "r", "o", "o", "m", "_", "r", "e", "n", "o", "v", "a", "t", "i", "o", "n">>,
      Atom("bathroom")>>,
    <<<<"b", "a", "t", "h", "r", "o", "o", "m", "_", "r", "e", "m", "o", "d", "e", "l">>,
      Atom("bathroom")>>,
    <<<<"b", "a", "t", "h", "r", "o", "o", "m", "_", "i", "n", "s", "t", "a", "l", "l", "a", "t", "i", "o", "n">>,
      Atom("bathroom")>>,
    <<<<"b", "a", "t", "h", "r", "o", "o", "m", "_", "r", "e", "p", "a", "i", "r">>,
      Atom("bathroom")>>,
    <<<<"b", "a", "t", "h", "r", "o", "o", "m", "_", "u", "p", "g", "r", "a", "d", "e">>,
      Atom("bathroom")>>,
    <<<<"k", "i", "t", "c", "h", "e", "n", "_", "r", "e", "n", "o", "v", "a", "t", "i", "o", "n">>,
      Atom("kitchen")>>,
    <<<<"k", "i", "t", "c", "h", "e", "n", "_", "r", "e", "m", "o", "d", "e", "l">>,
      Atom("kitchen")>>,
    <<<<"k", "i", "t", "c", "h", "e", "n", "_", "i", "n", "s", "t", "a", "l", "l", "a", "t", "i", "o", "n">>,
      Atom("kitchen")>>,
    <<<<"k", "i", "t", "c", "h", "e", "n", "_", "u", "p", "g", "r", "a", "d", "e">>,
      Atom("kitchen")>>,
    <<<<"k", "i", "t", "c", "h", "e", "n", "_", "r", "e", "p", "a", "i", "r">>,
      Atom("kitchen")>>,
    <<<<"g", "e", "n", "e", "r", "a", "l", "_", "c", "o", "n", "s", "t", "r", "u", "c", "t", "i", "o", "n">>,
      Atom("general")>>,
    <<<<"h", "o", "m", "e", "_", "r", "e", "n", "o", "v", "a", "t", "i", "o", "n">>,
      Atom("general")>>,
    <<<<"v", "i", "l", "l", "a", "_", "c", "o", "n", "s", "t", "r", "u", "c", "t", "i", "o", "n">>,
      Atom("general")>>,
    <<<<"b", "u", "i", "l", "d", "i", "n", "g", "_", "r", "e", "n", "o", "v", "a", "t", "i", "o", "n">>,
      Atom("general")>>,
    <<<<"h", "o", "u", "s", "e", "_", "c", "o", "n", "s", "t", "r", "u", "c", "t", "i", "o", "n">>,
      Atom("general")>>,
    <<<<"r", "e", "n", "o", "v", "a", "t", "i", "o", "n">>,
      Atom("general")>>,
    <<<<"c", "o", "n", "s", "t", "r", "u", "c", "t", "i", "o", "n">>,
      Atom("general")>> }

\* BALI_AREA_GROUPS, in the order of the dict: south, central, east, north.
BALI_AREA_GROUPS ==
  << [group |-> "south",
      areas |-> {<<"c", "a", "n", "g", "g", "u">>,
                 <<"s", "e", "m", "i", "n", "y", "a", "k">>,
                 <<"k", "u", "t", "a">>,
                 <<"l", "e", "g", "i", "a", "n">>,
                 <<"j", "i", "m", "b", "a", "r", "a", "n">>,
                 <<"u", "l", "u", "w", "a", "t", "u">>,
                 <<"p", "e", "c", "a", "t", "u">>}],
     [group |-> "central",
      areas |-> {<<"d", "e", "n", "p", "a", "s", "a", "r">>,
                 <<"s", "a", "n", "u", "r">>,
                 <<"r", "e", "n", "o", "n">>}],
     [group |-> "east",
      areas |-> {<<"u", "b", "u", "d">>,
                 <<"g", "i", "a", "n", "y", "a", "r">>,
                 <<"s", "i", "d", "e", "m", "e", "n">>}],
     [group |-> "north",
      areas |-> {<<"l", "o", "v", "i", "n", "a">>,
                 <<"s", "i", "n", "g", "a", "r", "a", "j", "a">>}] >>

\* BUDGET_RANGES.get(budget_range, (0, float("inf"))): the closed range in
\* IDR; open is TRUE when max is infinity.
BUDGET_RANGES(budget_range) ==
  CASE budget_range = Atom("low") -> [min |-> 0, max |-> 50000000, open |-> FALSE]
    [] budget_range = Atom("medium") ->
         [min |-> 50000000, max |-> 150000000, open |-> FALSE]
    [] budget_range = Atom("high") -> [min |-> 150000000, max |-> 0, open |-> TRUE]
    [] OTHER -> [min |-> 0, max |-> 0, open |-> TRUE]

\* map_project_type_to_specialization
map_project_type_to_specialization(project_type) ==
  Once(Lower(project_type.v) \o <<>>, LAMBDA key :
    IF \E e \in PROJECT_TYPE_TO_SPECIALIZATION : e[1] = key
    THEN (CHOOSE e \in PROJECT_TYPE_TO_SPECIALIZATION : e[1] = key)[2]
    ELSE Atom("general"))

\* The whitespace at the end of s removed.
RECURSIVE DropTrailingSpaces(_)
DropTrailingSpaces(s) ==
  IF s # <<>> /\ s[Len(s)] \in Whitespace
  THEN DropTrailingSpaces(SubSeq(s, 1, Len(s) - 1))
  ELSE s

\* str.strip()
Strip(s) == DropTrailingSpaces(SkipSpaces(s))

\* The group the loop over BALI_AREA_GROUPS leaves for a location: the last
\* group one of whose areas occurs in it, 0 when there is none.
AreaGroup(loc) ==
  LET found == {g \in 1..Len(BALI_AREA_GROUPS) :
                  \E area \in BALI_AREA_GROUPS[g].areas : Contains(loc, area)}
  IN IF found = {} THEN 0 ELSE CHOOSE g \in found : \A h \in found : h <= g

\* calculate_location_relevance, in tenths: 10, 8, 5 or 3.
calculate_location_relevance(worker_location, requested_location) ==
  IF ~Truthy(worker_location) \/ ~Truthy(requested_location) THEN 3
  ELSE Once(Strip(Lower(worker_location.v) \o <<>>), LAMBDA worker_loc :
       Once(Strip(Lower(requested_location.v) \o <<>>), LAMBDA requested_loc :
         IF \/ worker_loc = requested_loc
            \/ Contains(requested_loc, worker_loc)
            \/ Contains(worker_loc, requested_loc)
         THEN 10
         ELSE Once(AreaGroup(worker_loc), LAMBDA worker_group :
              Once(AreaGroup(requested_loc), LAMBDA requested_group :
                IF worker_group # 0 /\ requested_group # 0
                   /\ worker_group = requested_group
                THEN 8
                ELSE 5))))

\* The match with "general" scoring like no match at all.
calculate_specialization_match_no_general(worker_specializations, required_specialization) ==
  IF ~Truthy(worker_specializations) THEN 0
  ELSE IF required_specialization \in Elems(worker_specializations) THEN 10
  ELSE 0

\* calculate_specialization_match, in tenths: 10, 7 or 0.
calculate_specialization_match(worker_specializations, required_specialization) ==
  IF ~Truthy(worker_specializations) THEN 0
  ELSE IF required_specialization \in Elems(worker_specializations) THEN 10
  ELSE IF Atom("general") \in Elems(worker_specializations) THEN 7
  ELSE 0

\* calculate_budget_relevance, in tenths: 10, 5 or 3.
calculate_budget_relevance(worker_price, budget_range) ==
  IF ~Truthy(budget_range) \/ ~Truthy(worker_price) THEN 5
  ELSE LET range == BUDGET_RANGES(budget_range)
       IN IF range.min <= worker_price.v /\ (range.open \/ worker_price.v <= range.max)
          THEN 10
          ELSE 3

\* worker.get("daily_rate_idr") or worker.get("price_idr_per_day")
\*   or worker.get("olx_price_idr")
WorkerPrice(worker) ==
  IF Truthy(Get(worker, "daily_rate_idr")) THEN Get(worker, "daily_rate_idr")
  ELSE IF Truthy(Get(worker, "price_idr_per_day")) THEN Get(worker, "price_idr_per_day")
  ELSE Get(worker, "olx_price_idr")

\* calculate_overall_rank_score with the default weights 0.5, 0.2, 0.2 and
\* 0.1: the score in tenths of a point (925 is 92.5), or Error when
\* trust_score is None (None / 100.0 raises TypeError).
calculate_overall_rank_score(worker, required_specialization, requested_location, budget_range) ==
  IF GetOr(worker, "trust_score", Num(0)).t # "num" THEN Error
  ELSE Num(GetOr(worker, "trust_score", Num(0)).v * 5
           + calculate_location_relevance(GetOr(worker, "location", Str(<<>>)),
                                          requested_location) * 20
           + calculate_specialization_match(GetOr(worker, "specializations", List(<<>>)),
                                            required_specialization) * 20
           + calculate_budget_relevance(WorkerPrice(worker), budget_range) * 10)

\* The filter keeping the workers strictly above the threshold.
PassesTrust_strict(w, min_trust_score) ==
  GetOr(w, "trust_score", Num(0)).v > min_trust_score

\* w.get("trust_score", 0) >= min_trust_score
PassesTrust(w, min_trust_score) ==
  GetOr(w, "trust_score", Num(0)).v >= min_trust_score

\* None >= min_trust_score raises TypeError.
TrustRaises(ws) ==
  \E k \in 1..Len(ws) : GetOr(ws[k], "trust_score", Num(0)).t # "num"

\* The indices of the workers the filter keeps, in input order.
FilteredIndices(ws, min_trust_score) ==
  SelectSeq([k \in 1..Len(ws) |-> k], LAMBDA k : PassesTrust(ws[k], min_trust_score))

\* worker["ranking_score"] = calculate_overall_rank_score(...) on the
\* workers the filter kept; the others are left as they are.
AttachScores(ws, kept, required_specialization, location, budget_range) ==
  [k \in 1..Len(ws) |->
     IF \E x \in 1..Len(kept) : kept[x] = k
     THEN Put(ws[k], "ranking_score",
              calculate_overall_rank_score(ws[k], required_specialization,
                                           location, budget_range))
     ELSE ws[k]] \o <<>>

\* w placed behind every element of the descending list whose score is
\* not lower than its own.
RECURSIVE InsertDescending(_, _)
InsertDescending(sorted, w) ==
  IF sorted = <<>> THEN <<w>>
  ELSE IF Head(sorted)["ranking_score"].v >= w["ranking_score"].v
       THEN <<Head(sorted)>> \o InsertDescending(Tail(sorted), w)
  ELSE <<w>> \o sorted

\* The list left in the order of the input.
SortDescending_unsorted(ws, k, sorted) == ws

\* sorted(filtered_workers, key=ranking_score, reverse=True): stable.
RECURSIVE SortDescending(_, _, _)
SortDescending(ws, k, sorted) ==
  IF k > Len(ws) THEN sorted
  ELSE Once(InsertDescending(sorted, ws[k]), LAMBDA next :
         SortDescending(ws, k + 1, next))

\* ranked_workers[:max_results]: a negative max_results counts from the end.
Slice(ranked, max_results) ==
  IF max_results >= 0
  THEN SubSeq(ranked, 1, IF max_results < Len(ranked) THEN max_results ELSE Len(ranked))
  ELSE SubSeq(ranked, 1, Len(ranked) + max_results)

\* rank_workers: the input list after the call (ranking_score is written
\* into the input records) and the list returned, or Error when the call
\* raises.
rank_workers(ws, project_type, location, min_trust_score, budget_range, max_results) ==
  IF TrustRaises(ws) THEN [workers |-> ws, returned |-> Error]
  ELSE
    Once(map_project_type_to_specialization(project_type), LAMBDA required_specialization :
    Once(FilteredIndices(ws, min_trust_score), LAMBDA kept :
    Once(AttachScores(ws, kept, required_specialization, location, budget_range),
         LAMBDA scored :
    Once(SortDescending([x \in 1..Len(kept) |-> scored[kept[x]]] \o <<>>, 1, <<>>),
         LAMBDA ranked_workers :
      [workers |-> scored, returned |-> List(Slice(ranked_workers, max_results))]))))

\* ------------------------------------------------------------ inputs

\* A key left out of a profile.
Absent == [t |-> "absent"]

\* The dict holding the keys of d whose value is not Absent.
Profile(d) == [k \in {x \in DOMAIN d : d[x] # Absent} |-> d[k]]

\* All lists of at most n elements of S.
ListsUpTo(S, n) == UNION {[1..k -> S] : k \in 0..n}

\* name_threshold values: the default 0.85 and a stricter 0.90.
Thresholds == {85, 90}

\* The profiles are_workers_duplicates is called on.
DupProfiles ==
  {Profile([phone |-> p, gmaps_place_id |-> g, business_name |-> n, location |-> l]) :
     p \in {Null, PhoneA1, PhoneA2, PhoneB},
     g \in {Absent, Atom("ChIJ1"), Atom("ChIJ2")},
     n \in {Absent, Null, NamePool, NamePool2, NameTile},
     l \in {Absent, Null, LocUbud, LocUbudRoad, LocCanggu}}

\* ------------------------------------------------------------ are_workers_duplicates

InitDup ==
  /\ workers \in [1..2 -> DupProfiles]
  /\ args = <<>>
  /\ pc = "dup_ready"
  /\ result = Null

\* are_workers_duplicates(workers[0], workers[1], name_threshold, phone_match_required)
CallAreDuplicates ==
  /\ pc = "dup_ready"
  /\ \E th \in Thresholds, req \in BOOLEAN :
       /\ args' = [name_threshold |-> th, phone_match_required |-> req]
       /\ result' = are_workers_duplicates(workers[1], workers[2], th, req)
  /\ pc' = "dup_done"
  /\ UNCHANGED workers

NextDup == CallAreDuplicates

SpecDup == InitDup /\ [][NextDup]_vars

\* The two profiles of the call and their normalized phones.
DupWorker1 == workers[1]
DupWorker2 == workers[2]
DupPhone1 == normalize_phone_number(Get(DupWorker1, "phone"))
DupPhone2 == normalize_phone_number(Get(DupWorker2, "phone"))

\* Both normalized phones exist and are equal (rule 1 applies).
DupPhonesEqual == DupPhone1 # Null /\ DupPhone2 # Null /\ DupPhone1 = DupPhone2

\* Both normalized phones exist and differ.
DupPhonesDiffer == DupPhone1 # Null /\ DupPhone2 # Null /\ DupPhone1 # DupPhone2

\* Both profiles carry the same non-empty place id.
DupSamePlace ==
  /\ "gmaps_place_id" \in DOMAIN DupWorker1
  /\ "gmaps_place_id" \in DOMAIN DupWorker2
  /\ DupWorker1["gmaps_place_id"] = DupWorker2["gmaps_place_id"]
  /\ DupWorker1["gmaps_place_id"] \notin {Null, Atom("")}

\* The business name a profile is compared by: "" when the key is missing.
DupName(w) == IF "business_name" \in DOMAIN w THEN w["business_name"] ELSE Str(<<>>)

\* The name similarity reaches the threshold of the call.
DupNamesSimilar ==
  /\ DupName(DupWorker1).t = "str" /\ DupName(DupWorker2).t = "str"
  /\ LET r == NameSimilarity(DupName(DupWorker1).v, DupName(DupWorker2).v)
     IN r[1] * 100 >= args.name_threshold * r[2]

\* A location that is a non-empty string.
DupHasLocation(w) ==
  "location" \in DOMAIN w /\ w["location"].t = "str" /\ w["location"].v # <<>>

\* Both locations are non-empty and one contains the other, ignoring case.
DupLocationsMatch ==
  /\ DupHasLocation(DupWorker1) /\ DupHasLocation(DupWorker2)
  /\ LET l1 == Lower(DupWorker1["location"].v)
         l2 == Lower(DupWorker2["location"].v)
     IN Contains(l1, l2) \/ Contains(l2, l1)

\* C4: whenever both profiles have a non-null normalized phone and the two
\* are equal, are_workers_duplicates returns true, whatever the names,
\* locations, place ids and phone_match_required.
C4_EqualPhonesAreDuplicates ==
  (pc = "dup_done" /\ DupPhonesEqual) => result = Bool(TRUE)

\* C4 witness: equal normalized phones written differently, on profiles with
\* different place ids and unlike names, phone_match_required false.
C4_Witness ==
  /\ pc = "dup_done" /\ DupPhonesEqual /\ result = Bool(TRUE)
  /\ Get(DupWorker1, "phone") # Get(DupWorker2, "phone")
  /\ Get(DupWorker1, "gmaps_place_id") = Atom("ChIJ1")
  /\ Get(DupWorker2, "gmaps_place_id") = Atom("ChIJ2")
  /\ Get(DupWorker1, "business_name") = NamePool
  /\ Get(DupWorker2, "business_name") = NameTile
  /\ ~args.phone_match_required

\* C5: with phone_match_required true, whenever both profiles have non-null
\* normalized phones that differ, are_workers_duplicates returns false.
C5_DifferentPhonesNotDuplicates ==
  (pc = "dup_done" /\ args.phone_match_required /\ DupPhonesDiffer)
    => result = Bool(FALSE)

\* C5 witness: different phones, yet the same place id, name and location.
C5_Witness ==
  /\ pc = "dup_done" /\ args.phone_match_required /\ DupPhonesDiffer
  /\ result = Bool(FALSE)
  /\ DupSamePlace
  /\ Get(DupWorker1, "business_name") = NamePool
  /\ Get(DupWorker2, "business_name") = NamePool
  /\ Get(DupWorker1, "location") = LocUbud
  /\ Get(DupWorker2, "location") = LocUbud

\* Neither phone rule applies: a normalized phone is missing on a side, or
\* the phones differ and phone_match_required is false.
DupNoPhoneRule ==
  /\ ~DupPhonesEqual
  /\ ~(args.phone_match_required /\ DupPhonesDiffer)

\* C6: when neither phone rule applies, are_workers_duplicates returns true
\* exactly when the place ids are equal and non-empty, or the names are
\* similar and the locations match; otherwise it returns false.
C6_PlaceOrNameLocation ==
  (pc = "dup_done" /\ DupNoPhoneRule)
    => result = Bool(DupSamePlace \/ (DupNamesSimilar /\ DupLocationsMatch))

\* ------------------------------------------------------------ merge_worker_profiles

\* The longest list merge_worker_profiles is called on.
MaxGroup == 3

\* Profiles that differ in tier and in one plain field.
FillProfiles ==
  {Profile([source_tier |-> t, email |-> e]) :
     t \in {Atom("platform"), Atom("manual_curated"), Atom("google_maps"),
            Atom("olx"), Atom("facebook")},
     e \in {Absent, Null, Atom("info@a.example"), Atom("info@b.example")}}

\* Profiles that differ in tier and in their specializations.
TagProfiles ==
  {Profile([source_tier |-> t, specializations |-> sp]) :
     t \in {Absent, Atom("google_maps"), Atom("olx")},
     sp \in {Absent, Null, List(<<>>), List(<<Atom("pool")>>),
             List(<<Atom("general"), Atom("pool")>>),
             List(<<Atom("kitchen"), Atom("kitchen")>>)}}

\* Google Maps listings with their rating and review count.
GmapsReputation ==
  {Profile([source_tier |-> Atom("google_maps"), gmaps_rating |-> r,
            gmaps_review_count |-> c]) :
     r \in {Absent, Num(45), Num(48)}, c \in {Absent, Null, Num(10)}}

\* OLX listings with their rating and review count, some cross-listed with
\* an empty Google Maps rating.
OlxReputation ==
  {Profile([source_tier |-> Atom("olx"), gmaps_rating |-> r, olx_rating |-> o,
            olx_review_count |-> c]) :
     r \in {Absent, Num(0)}, o \in {Absent, Num(50)}, c \in {Absent, Num(5)}}

MergeInputs ==
  ListsUpTo(FillProfiles, MaxGroup) \cup ListsUpTo(TagProfiles, MaxGroup)
    \cup ListsUpTo(GmapsReputation \cup OlxReputation, MaxGroup)

InitMerge ==
  /\ workers \in MergeInputs
  /\ args = <<>>
  /\ pc = "merge_ready"
  /\ result = Null

\* merge_worker_profiles(workers)
CallMerge ==
  /\ pc = "merge_ready"
  /\ result' = merge_worker_profiles(workers)
  /\ workers' = workers_after_merge(workers)
  /\ pc' = "merge_done"
  /\ UNCHANGED args

NextMerge == CallMerge

SpecMerge == InitMerge /\ [][NextMerge]_vars

\* A merge of two or more profiles has returned a profile.
Merged == pc = "merge_done" /\ Len(workers) >= 2 /\ result # Error

\* The keys of the input profiles.
InputKeys == UNION {DOMAIN workers[i] : i \in 1..Len(workers)}

\* The aggregated fields and the merge metadata.
AggregatedKeys ==
  {"specializations", "gmaps_categories", "gmaps_rating", "gmaps_review_count",
   "is_merged", "source_count", "merged_sources"}

\* The priority of a profile's tier: platform 4 > manual_curated 3 >
\* google_maps 2 > olx 1, anything else 0.
TierRank(w) ==
  IF "source_tier" \notin DOMAIN w THEN 0
  ELSE CASE w["source_tier"] = Atom("platform") -> 4
         [] w["source_tier"] = Atom("manual_curated") -> 3
         [] w["source_tier"] = Atom("google_maps") -> 2
         [] w["source_tier"] = Atom("olx") -> 1
         [] OTHER -> 0

\* The inputs that have key k with a non-null value.
Suppliers(k) ==
  {i \in 1..Len(workers) : k \in DOMAIN workers[i] /\ workers[i][k] # Null}

TagsOf(w) ==
  IF "specializations" \in DOMAIN w /\ w["specializations"].t = "list"
  THEN {w["specializations"].v[x] : x \in 1..Len(w["specializations"].v)}
  ELSE {}

\* C8: the specializations of the merged profile are, as a set, the union
\* of the specializations of all the inputs.
C8_SpecializationsAreUnion ==
  Merged =>
    /\ "specializations" \in DOMAIN result
    /\ result["specializations"].t = "setlist"
    /\ result["specializations"].v = UNION {TagsOf(workers[i]) : i \in 1..Len(workers)}

\* C8 witness: three inputs whose tags overlap and repeat.
C8_Witness ==
  /\ Merged /\ Len(workers) = 3
  /\ Get(workers[1], "specializations") = List(<<Atom("kitchen"), Atom("kitchen")>>)
  /\ Get(workers[2], "specializations") = List(<<Atom("general"), Atom("pool")>>)
  /\ Get(workers[3], "specializations") = List(<<Atom("pool")>>)
  /\ TierRank(workers[1]) < TierRank(workers[2])
  /\ result["specializations"].v = {Atom("kitchen"), Atom("general"), Atom("pool")}

\* A field's number, 0 when it is absent, null or 0.
NumberOr0(w, k) ==
  IF k \in DOMAIN w /\ w[k].t = "num" THEN w[k].v ELSE 0

\* The rating of one input: gmaps_rating, else olx_rating, else 0 (a
\* rating of 0 counts as none).
RatingClaimed(w) ==
  IF NumberOr0(w, "gmaps_rating") # 0 THEN NumberOr0(w, "gmaps_rating")
  ELSE NumberOr0(w, "olx_rating")

MaxRatingClaimed ==
  CHOOSE m \in {0} \cup {RatingClaimed(workers[i]) : i \in 1..Len(workers)} :
    \A i \in 1..Len(workers) : RatingClaimed(workers[i]) <= m

RECURSIVE SumReviewsClaimed(_)
SumReviewsClaimed(n) ==
  IF n = 0 THEN 0
  ELSE SumReviewsClaimed(n - 1) + NumberOr0(workers[n], "gmaps_review_count")
         + NumberOr0(workers[n], "olx_review_count")

C10_MergeMetadataInInputOrder ==
  Merged =>
    /\ Get(result, "is_merged") = Bool(TRUE)
    /\ Get(result, "source_count") = Num(Len(workers))
    /\ Get(result, "merged_sources")
         = List([i \in 1..Len(workers) |->
                   IF "source_tier" \in DOMAIN workers[i]
                   THEN workers[i]["source_tier"] ELSE Null])

\* C10 witness: three inputs passed in ascending priority.
C10_Witness ==
  /\ Merged /\ Len(workers) = 3
  /\ result["merged_sources"]
       = List(<<Atom("olx"), Atom("google_maps"), Atom("platform")>>)
  /\ result["source_count"] = Num(3)
  /\ result["is_merged"] = Bool(TRUE)

\* The source_tier of each input, in the order passed in.
InputTiers == [i \in 1..Len(workers) |-> Get(workers[i], "source_tier")]

\* tiers lists the inputs' source_tier in the order the merge processes
\* them: by descending priority, inputs of equal priority in input order.
InPriorityOrder(tiers) ==
  /\ Len(tiers) = Len(workers)
  /\ \E p \in Permutations(1..Len(workers)) :
       /\ \A k \in 1..Len(workers) : tiers[k] = Get(workers[p[k]], "source_tier")
       /\ \A k \in 1..(Len(workers) - 1) :
            \/ TierRank(workers[p[k]]) > TierRank(workers[p[k + 1]])
            \/ /\ TierRank(workers[p[k]]) = TierRank(workers[p[k + 1]])
               /\ p[k] < p[k + 1]

\* C11 as stated: merged_sources lists the tiers in the priority-sorted
\* order in which the merge processed the inputs.
C11_MergedSourcesInPriorityOrder ==
  Merged => InPriorityOrder(Get(result, "merged_sources").v)

\* C11, amended: merged_sources lists the tiers position by position in
\* the order the inputs were passed in; it is in priority order only when
\* the inputs were passed in that order.
C11_MergedSourcesFollowInput ==
  Merged =>
    LET sources == Get(result, "merged_sources").v
    IN /\ Len(sources) = Len(workers)
       /\ \A k \in 1..Len(workers) : sources[k] = Get(workers[k], "source_tier")
       /\ InPriorityOrder(sources) <=> InPriorityOrder(InputTiers)

\* C11 witness: an OLX listing passed before a platform profile; the
\* platform profile is the base of the merge, the OLX tier is listed first.
C11_Witness ==
  /\ Merged /\ Len(workers) = 2
  /\ Get(workers[1], "source_tier") = Atom("olx")
  /\ Get(workers[2], "source_tier") = Atom("platform")
  /\ result["source_tier"] = Atom("platform")
  /\ result["merged_sources"] = List(<<Atom("olx"), Atom("platform")>>)
  /\ ~InPriorityOrder(result["merged_sources"].v)

\* The merge metadata keys.
MetadataKeys == {"is_merged", "source_count", "merged_sources"}

\* C12: merge_worker_profiles on exactly one profile returns that profile:
\* the same keys with the same values, and none of the merge metadata.
C12_SingleProfileUnchanged ==
  (pc = "merge_done" /\ Len(workers) = 1) =>
    /\ DOMAIN result = DOMAIN workers[1]
    /\ \A k \in DOMAIN workers[1] : result[k] = workers[1][k]
    /\ DOMAIN result \cap MetadataKeys = {}

\* C12 witness: a single profile with a null field and a review count that
\* would make a merge of several raise comes back as it is.
C12_Witness ==
  /\ pc = "merge_done" /\ Len(workers) = 1
  /\ workers[1] = Profile([source_tier |-> Atom("google_maps"), gmaps_rating |-> Num(45),
                           gmaps_review_count |-> Null])
  /\ result = workers[1]

\* C13 as stated: merge_worker_profiles on an empty list raises.
C13_EmptyMergeRaises ==
  (pc = "merge_done" /\ Len(workers) = 0) => result = Error

\* C13, amended: merge_worker_profiles on an empty list returns the empty
\* record {} and does not raise.
C13_EmptyMergeReturnsEmptyRecord ==
  (pc = "merge_done" /\ Len(workers) = 0) => (result # Error /\ DOMAIN result = {})

\* C13 witness: the call on the empty list has returned.
C13_Witness ==
  pc = "merge_done" /\ workers = <<>> /\ result = <<>>

\* ------------------------------------------------------------ deduplicate_workers

\* The longest list deduplicate_workers is called on.
MaxWorkers == 3

\* The default name_threshold of deduplicate_workers, in hundredths.
DEFAULT_NAME_THRESHOLD == 85

\* Scraped listings of one area: Google Maps listings carry a place id, OLX
\* listings do not; the phone may be missing.
DedupProfiles ==
  {Profile([business_name |-> n, phone |-> p, location |-> LocUbud,
            source_tier |-> src[1], gmaps_place_id |-> src[2]]) :
     n \in {NamePool, NameTile},
     p \in {Absent, PhoneA1, PhoneA2, PhoneB},
     src \in {<<Atom("google_maps"), Atom("ChIJ1")>>, <<Atom("olx"), Absent>>}}

InitDedup ==
  /\ workers \in ListsUpTo(DedupProfiles, MaxWorkers)
  /\ args = [name_threshold |-> DEFAULT_NAME_THRESHOLD]
  /\ pc = "dedup_ready"
  /\ result = Null

\* deduplicate_workers(workers): the duplicate groups it forms and the list
\* it returns.
CallDeduplicate ==
  /\ pc = "dedup_ready"
  /\ result' = [groups |-> DuplicateGroups(workers, args.name_threshold),
                deduplicated |-> deduplicate_workers(workers, args.name_threshold),
                again |-> Null]
  /\ workers' = workers_after_deduplicate(workers, args.name_threshold)
  /\ pc' = "dedup_done"
  /\ UNCHANGED args

\* deduplicate_workers(deduplicated): a second pass over the returned list.
CallDeduplicateAgain ==
  /\ pc = "dedup_done"
  /\ result.deduplicated.t = "list"
  /\ result' = [result EXCEPT
                  !.again = deduplicate_workers(result.deduplicated.v,
                                                args.name_threshold)]
  /\ pc' = "dedup_again"
  /\ UNCHANGED <<workers, args>>

NextDedup == CallDeduplicate \/ CallDeduplicateAgain

SpecDedup == InitDedup /\ [][NextDedup]_vars

\* deduplicate_workers has returned a list.
Deduplicated == pc \in {"dedup_done", "dedup_again"} /\ result.deduplicated.t = "list"

\* C1: a second deduplication pass over the output of the first returns as
\* many profiles as the first.
C1_SecondPassKeepsLength ==
  (pc = "dedup_again" /\ result.again.t = "list")
    => Len(result.again.v) = Len(result.deduplicated.v)

\* The indices of the groups before group g.
TakenBefore(groups, g) ==
  UNION {{groups[h][x] : x \in 1..Len(groups[h])} : h \in 1..(g - 1)}

\* Profile j is a duplicate of profile i by are_workers_duplicates.
IsDuplicateOf(i, j) ==
  are_workers_duplicates(workers[i], workers[j], args.name_threshold, TRUE) = Bool(TRUE)

\* C2: each group is seeded by the first profile not in an earlier group,
\* its other members are exactly the later profiles not in an earlier group
\* that are duplicates of the seed, in index order, and the output lists one
\* profile per group in the order of the groups.
C2_StarShapedSinglePass ==
  Deduplicated =>
    LET groups == result.groups.v
    IN /\ Len(result.deduplicated.v) = Len(groups)
       /\ \A g \in 1..Len(groups) :
            LET taken == TakenBefore(groups, g)
                seed == groups[g][1]
                members == {groups[g][x] : x \in 1..Len(groups[g])}
            IN /\ seed \in 1..Len(workers) /\ seed \notin taken
               /\ \A i \in 1..(seed - 1) : i \in taken
               /\ members = {seed} \cup {j \in (seed + 1)..Len(workers) :
                                           j \notin taken /\ IsDuplicateOf(seed, j)}
               /\ \A x \in 1..(Len(groups[g]) - 1) : groups[g][x] < groups[g][x + 1]
               /\ Len(groups[g]) = 1 => result.deduplicated.v[g] = workers[seed]
       /\ \A i \in 1..Len(workers) : i \in TakenBefore(groups, Len(groups) + 1)

\* C2 witness: the second and third profiles are duplicates of each other
\* but only the third is a duplicate of the seed; the second is left to seed
\* its own group.
C2_Witness ==
  /\ Deduplicated /\ Len(workers) = 3
  /\ ~IsDuplicateOf(1, 2) /\ IsDuplicateOf(1, 3) /\ IsDuplicateOf(2, 3)
  /\ result.groups.v = << <<1, 3>>, <<2>> >>

MergeMetadata == {"is_merged", "source_count", "merged_sources"}

\* C3: an output profile carries is_merged, source_count and merged_sources
\* exactly when its group has two or more members; a group of one yields
\* the input profile itself.
C3_MetadataOnlyOnMergedGroups ==
  Deduplicated =>
    \A g \in 1..Len(result.groups.v) :
      LET out == result.deduplicated.v[g]
      IN IF Len(result.groups.v[g]) >= 2
         THEN MergeMetadata \subseteq DOMAIN out
         ELSE /\ MergeMetadata \cap DOMAIN out = {}
              /\ out = workers[result.groups.v[g][1]]

\* C3 witness: one group of two and one group of one.
C3_Witness ==
  /\ Deduplicated /\ Len(workers) = 3
  /\ Len(result.groups.v) = 2
  /\ Len(result.groups.v[1]) = 2 /\ Len(result.groups.v[2]) = 1
  /\ result.deduplicated.v[1]["source_count"] = Num(2)
  /\ "is_merged" \notin DOMAIN result.deduplicated.v[2]

\* The size of the group an output profile stands for.
GroupSize(out) ==
  IF "is_merged" \in DOMAIN out THEN out["source_count"].v ELSE 1

RECURSIVE SumOfGroupSizes(_)
SumOfGroupSizes(outs) ==
  IF outs = <<>> THEN 0 ELSE GroupSize(Head(outs)) + SumOfGroupSizes(Tail(outs))

\* C28: deduplicate_workers partitions its input: every input profile is in
\* exactly one group, the group sizes (source_count of a merged profile, 1
\* for a profile passed through) sum to the length of the input, the output
\* is never longer than the input, and an empty input gives an empty output.
C28_GroupsPartitionInput ==
  Deduplicated =>
    LET groups == result.groups.v
        outs == result.deduplicated.v
    IN /\ \A i \in 1..Len(workers) :
            Cardinality({<<g, x>> \in (1..Len(groups)) \X (1..Len(workers)) :
                           x <= Len(groups[g]) /\ groups[g][x] = i}) = 1
       /\ \A g \in 1..Len(groups) : \A x \in 1..Len(groups[g]) :
            groups[g][x] \in 1..Len(workers)
       /\ SumOfGroupSizes(outs) = Len(workers)
       /\ Len(outs) <= Len(workers)
       /\ workers = <<>> => outs = <<>>
       /\ (pc = "dedup_again" /\ result.again.t = "list")
            => Len(result.again.v) <= Len(outs)

\* C28 witness: three profiles, the first and the last merged, the second
\* passed through: 2 + 1 = 3.
C28_Witness ==
  /\ Deduplicated /\ Len(workers) = 3
  /\ result.groups.v = << <<1, 3>>, <<2>> >>
  /\ GroupSize(result.deduplicated.v[1]) = 2
  /\ GroupSize(result.deduplicated.v[2]) = 1

ProjectPool ==
  Str(<<"P", "o", "o", "l", "_", "C", "o", "n", "s", "t", "r", "u", "c", "t", "i", "o", "n">>)
ProjectGarden == Str(<<"g", "a", "r", "d", "e", "n">>)

LocSeminyak == Str(<<" ", "S", "e", "m", "i", "n", "y", "a", "k">>)

\* Workers that differ in trust score; two ids tell apart workers that
\* score the same.
OrderProfiles ==
  {Profile([id |-> i, trust_score |-> t, specializations |-> List(<<Atom("general")>>),
            location |-> LocCanggu]) :
     i \in {Atom("a"), Atom("b")},
     t \in {Absent, Null, Num(40), Num(85)}}

\* Workers that differ in every component of the ranking score.
ScoreProfiles ==
  {Profile([trust_score |-> t, location |-> l, specializations |-> sp,
            daily_rate_idr |-> d, olx_price_idr |-> o]) :
     t \in {Num(0), Num(85), Num(100)},
     l \in {Absent, Null, LocCanggu, LocSeminyak, LocUbud},
     sp \in {Absent, Null, List(<<>>), List(<<Atom("pool")>>),
             List(<<Atom("general"), Atom("bathroom")>>), List(<<Atom("bathroom")>>)},
     d \in {Absent, Num(0), Num(40000000), Num(50000000)},
     o \in {Absent, Num(200000000)}}

\* The calls of rank_workers: lists of workers with the thresholds and
\* result limits of a search request, and single workers with its budget
\* ranges and project types.
RankInputs ==
  {[workers |-> ws,
    args |-> [project_type |-> ProjectPool, location |-> LocCanggu,
              min_trust_score |-> m, budget_range |-> Null, max_results |-> r]] :
     ws \in ListsUpTo(OrderProfiles, MaxWorkers), m \in {0, 40}, r \in {-1, 1, 10}}
  \cup
  {[workers |-> <<w>>,
    args |-> [project_type |-> p, location |-> LocCanggu,
              min_trust_score |-> 0, budget_range |-> b, max_results |-> 10]] :
     w \in ScoreProfiles, p \in {ProjectPool, ProjectGarden},
     b \in {Null, Atom("low"), Atom("medium"), Atom("high"), Atom("luxury")}}

InitRank ==
  /\ \E in \in RankInputs : workers = in.workers /\ args = in.args
  /\ pc = "rank_ready"
  /\ result = Null

\* rank_workers(workers, project_type, location, min_trust_score,
\*              budget_range, max_results)
CallRank ==
  /\ pc = "rank_ready"
  /\ LET out == rank_workers(workers, args.project_type, args.location,
                             args.min_trust_score, args.budget_range, args.max_results)
     IN workers' = out.workers /\ result' = out.returned
  /\ pc' = "rank_done"
  /\ UNCHANGED args

NextRank == CallRank

SpecRank == InitRank /\ [][NextRank]_vars

\* rank_workers has returned a list.
Ranked == pc = "rank_done" /\ result # Error

\* A worker's trust score, 0 when it has none.
TrustOr0(w) == IF "trust_score" \in DOMAIN w THEN w["trust_score"].v ELSE 0

\* The input workers that meet the threshold.
MeetThreshold == {k \in 1..Len(workers) : TrustOr0(workers[k]) >= args.min_trust_score}

\* C18: every worker returned has a trust score, 0 when it has none, of
\* at least min_trust_score; the filter keeps (and scores) exactly the
\* workers that meet the threshold, so when max_results does not truncate
\* each of them is returned.
C18_FilterKeepsThreshold ==
  Ranked =>
    /\ \A x \in 1..Len(result.v) : TrustOr0(result.v[x]) >= args.min_trust_score
    /\ \A k \in 1..Len(workers) :
         (k \in MeetThreshold) <=> ("ranking_score" \in DOMAIN workers[k])
    /\ args.max_results >= Cardinality(MeetThreshold)
         => /\ Len(result.v) = Cardinality(MeetThreshold)
            /\ \A k \in MeetThreshold : \E x \in 1..Len(result.v) : result.v[x] = workers[k]

\* C18 witness: a worker without a trust score, one at the threshold and
\* one above it; the last two are returned.
C18_Witness ==
  /\ Ranked /\ Len(workers) = 3 /\ args.min_trust_score = 40 /\ args.max_results = 10
  /\ "trust_score" \notin DOMAIN workers[1]
  /\ Get(workers[2], "trust_score") = Num(40)
  /\ Get(workers[3], "trust_score") = Num(85)
  /\ Len(result.v) = 2
  /\ "ranking_score" \notin DOMAIN workers[1]

\* The workers that meet the threshold, in input order.
Survivors ==
  SelectSeq([k \in 1..Len(workers) |-> k], LAMBDA k : k \in MeetThreshold)

\* C19 as stated: the list returned is the first max_results entries of
\* the surviving workers in descending order of ranking_score, workers of
\* equal score in input order, and its length is min(max_results, number
\* of survivors) (none when that is below 0).
C19_SortedStablePrefix ==
  Ranked =>
    LET n == Len(Survivors)
        least == IF args.max_results < n THEN args.max_results ELSE n
        length == IF least < 0 THEN 0 ELSE least
    IN /\ Len(result.v) = length
       /\ \E p \in [1..n -> 1..n] :
            /\ \A x, y \in 1..n : x # y => p[x] # p[y]
            /\ \A x \in 1..(n - 1) :
                 LET a == workers[Survivors[p[x]]]["ranking_score"].v
                     b == workers[Survivors[p[x + 1]]]["ranking_score"].v
                 IN a > b \/ (a = b /\ p[x] < p[x + 1])
            /\ \A x \in 1..Len(result.v) : result.v[x] = workers[Survivors[p[x]]]

\* The specialization a project type asks for.
RequiredClaimed ==
  IF args.project_type = ProjectPool THEN Atom("pool") ELSE Atom("general")

\* The specialization component: 1.0 exact, 0.7 via "general", else 0.0,
\* in tenths.
SpecializationClaimed(w) ==
  IF RequiredClaimed \in TagsOf(w) THEN 10
  ELSE IF Atom("general") \in TagsOf(w) THEN 7
  ELSE 0

\* C20: with the default weights the ranking_score attached to a worker
\* whose trust score is in 0..100 is 100 * (0.5 * trust_score / 100
\* + 0.2 * location + 0.2 * specialization + 0.1 * budget), and lies
\* between 0 and 100 (scores in tenths of a point, components in tenths).
C20_WeightedScoreInRange ==
  Ranked =>
    \A k \in 1..Len(workers) :
      ("ranking_score" \in DOMAIN workers[k] /\ TrustOr0(workers[k]) \in 0..100) =>
        LET w == workers[k]
            score == w["ranking_score"].v
        IN /\ score = 5 * TrustOr0(w)
                      + 20 * calculate_location_relevance(
                               GetOr(w, "location", Str(<<>>)), args.location)
                      + 20 * SpecializationClaimed(w)
                      + 10 * calculate_budget_relevance(WorkerPrice(w), args.budget_range)
           /\ score >= 0 /\ score <= 1000

\* C20 witness: trust 85, a pool specialist in the requested area, priced
\* inside the low budget: 92.5; and a general contractor scoring 0.7 on
\* specialization.
C20_Witness ==
  /\ Ranked /\ Len(workers) = 1 /\ args.budget_range = Atom("low")
  /\ args.project_type = ProjectPool
  /\ Get(workers[1], "trust_score") = Num(85)
  /\ Get(workers[1], "location") = LocCanggu
  /\ Get(workers[1], "specializations") = List(<<Atom("pool")>>)
  /\ Get(workers[1], "daily_rate_idr") = Num(40000000)
  /\ workers[1]["ranking_score"] = Num(925)
  /\ result.v[1]["ranking_score"] = Num(925)

\* ------------------------------------------------------------ batches

\* Records as the scraper and the cache hand them over: a field may be
\* missing or present with a null value.
BatchProfiles ==
  {Profile([business_name |-> n, location |-> l, gmaps_review_count |-> c,
            trust_score |-> t]) :
     n \in {NameTile, Null}, l \in {LocUbud, Null}, c \in {Absent, Null},
     t \in {Num(50), Null}}

InitBatch ==
  /\ workers \in ListsUpTo(BatchProfiles, MaxWorkers)
  /\ args = [name_threshold |-> DEFAULT_NAME_THRESHOLD, project_type |-> ProjectPool,
             location |-> LocUbud, min_trust_score |-> 40, budget_range |-> Null,
             max_results |-> 10]
  /\ pc = "batch_ready"
  /\ result = Null

\* deduplicate_workers(workers)
DeduplicateBatch ==
  /\ pc = "batch_ready"
  /\ result' = deduplicate_workers(workers, args.name_threshold)
  /\ pc' = "batch_deduplicated"
  /\ UNCHANGED <<workers, args>>

\* rank_workers(workers, project_type, location)
RankBatch ==
  /\ pc = "batch_ready"
  /\ LET out == rank_workers(workers, args.project_type, args.location,
                             args.min_trust_score, args.budget_range, args.max_results)
     IN workers' = out.workers /\ result' = out.returned
  /\ pc' = "batch_ranked"
  /\ UNCHANGED args

NextBatch == DeduplicateBatch \/ RankBatch

SpecBatch == InitBatch /\ [][NextBatch]_vars

\* C14 as stated: no record with missing or null fields makes
\* deduplicate_workers or rank_workers fail.
C14_BatchCallsNeverFail ==
  pc \in {"batch_deduplicated", "batch_ranked"} => result # Error

\* ------------------------------------------------------------ normalize_phone_number

\* Digit strings that follow the country code.
\* 8 and 8 digits: the shortest mobile number.
BodyMobileShortest == <<"8", "1", "2", "3", "4", "5", "6", "7", "8">>
\* 8 and 11 digits: the longest mobile number.
BodyMobileLongest == <<"8", "1", "2", "3", "4", "5", "6", "7", "8", "9", "0", "1">>
\* 8 and 7 digits.
BodyMobileTooShort == <<"8", "1", "2", "3", "4", "5", "6", "7">>
\* 8 and 12 digits.
BodyMobileTooLong == <<"8", "1", "2", "3", "4", "5", "6", "7", "8", "9", "0", "1", "2">>
\* Area code 36 and 7 digits, as in (0361) 234567.
BodyLandline == <<"3", "6", "1", "2", "3", "4", "5", "6", "7">>
\* Area code 62 and 6 digits: a number that itself starts with 62.
BodyLandline62 == <<"6", "2", "1", "2", "3", "4", "5", "6">>
\* Area code 30: second digit zero.
BodyLandlineZeroArea == <<"3", "0", "1", "2", "3", "4", "5", "6">>
\* Area code 36 and 5 digits.
BodyLandlineTooShort == <<"3", "6", "1", "2", "3", "4", "5">>
\* Neither a mobile number nor a known area code.
BodyOther == <<"7", "1", "2", "3", "4", "5", "6", "7", "8">>

\* A number whose fourth digit is not an ASCII digit, and one with a "+"
\* inside.
BodyMobileOtherDigit ==
  <<"8", "1", "2", ArabicIndicThree, "4", "5", "6", "7", "8">>
BodyMobileInnerPlus == <<"8", "1", "2", "+", "3", "4", "5", "6", "7", "8">>
BodyMobileLetters ==
  <<"8", "1", "2", "3", "4", "5", "6", "7", "8", " ", "w", "a">>

PhoneBodies ==
  {BodyMobileShortest, BodyMobileLongest, BodyMobileTooShort, BodyMobileTooLong, BodyLandline,
   BodyLandline62, BodyLandlineZeroArea, BodyLandlineTooShort, BodyOther,
   BodyMobileOtherDigit, BodyMobileInnerPlus, BodyMobileLetters}

\* What is written before the digits.
PhoneStarts ==
  {<<"+", "6", "2">>, <<"6", "2">>, <<"0">>, <<>>, <<"+">>, <<"+", "+", "6", "2">>,
   <<"1">>, <<"+", "0">>}

\* s with sep after every n characters but the last group.
RECURSIVE InsertEvery(_, _, _)
InsertEvery(s, n, sep) ==
  IF Len(s) <= n THEN s
  ELSE SubSeq(s, 1, n) \o sep \o InsertEvery(Drop(s, n), n, sep)

\* The spellings of the docstring: plain, "+62 812 345 678",
\* "0812-345-678", "(0361) 234567", and one with blanks around.
PhoneStyles == {"plain", "spaces", "hyphens", "parentheses", "padded"}

Spell(s, style) ==
  CASE style = "plain" -> s
    [] style = "spaces" -> InsertEvery(s, 3, <<" ">>)
    [] style = "hyphens" -> InsertEvery(s, 4, <<"-">>)
    [] style = "parentheses" ->
         IF Len(s) <= 4 THEN <<"(">> \o s \o <<")">>
         ELSE <<"(">> \o SubSeq(s, 1, 4) \o <<")", " ">> \o Drop(s, 4)
    [] style = "padded" -> <<" ">> \o InsertEvery(s, 5, <<" ", "-", " ">>) \o <<" ">>

PhoneInputs ==
  {[start |-> <<>>, body |-> <<>>, style |-> "plain", phone |-> p] :
     p \in {Null, Str(<<>>)}}
  \cup {[start |-> st, body |-> b, style |-> sty,
         phone |-> Str(Spell(st \o b, sty))] :
          st \in PhoneStarts, b \in PhoneBodies, sty \in PhoneStyles}

InitPhone ==
  /\ workers = <<>>
  /\ args \in PhoneInputs
  /\ pc = "phone_ready"
  /\ result = Null

\* normalize_phone_number(phone)
CallNormalizePhone ==
  /\ pc = "phone_ready"
  /\ result' = normalize_phone_number(args.phone)
  /\ pc' = "phone_done"
  /\ UNCHANGED <<workers, args>>

NextPhone == CallNormalizePhone

SpecPhone == InitPhone /\ [][NextPhone]_vars

\* A digit string after +62 that makes a mobile number: 8, then 8 to 11
\* digits.
MobileDigits(d) ==
  /\ Len(d) >= 9 /\ Len(d) <= 12
  /\ d[1] = "8"
  /\ \A i \in 1..Len(d) : d[i] \in Digits

\* A digit string after +62 that makes a landline number: area code 21-69
\* with a non-zero second digit, then 6 to 8 digits.
LandlineDigits(d) ==
  /\ Len(d) >= 8 /\ Len(d) <= 10
  /\ d[1] \in {"2", "3", "4", "5", "6"}
  /\ d[2] \in Digits \ {"0"}
  /\ \A i \in 1..Len(d) : d[i] \in Digits

\* C15: normalize_phone_number returns null or a string "+62" followed only
\* by digits that make a mobile or a landline number; never a partially
\* cleaned string.
C15_NullOrCanonicalPhone ==
  pc = "phone_done" =>
    \/ result = Null
    \/ /\ result.t = "str"
       /\ StartsWith(result.v, <<"+", "6", "2">>)
       /\ MobileDigits(Drop(result.v, 3)) \/ LandlineDigits(Drop(result.v, 3))

\* C15 witness: "(0361) 234567" gives "+62361234567".
C15_Witness ==
  /\ pc = "phone_done"
  /\ args.phone = Str(<<"(", "0", "3", "6", "1", ")", " ", "2", "3", "4", "5", "6", "7">>)
  /\ result = Str(<<"+", "6", "2", "3", "6", "1", "2", "3", "4", "5", "6", "7">>)

\* The ASCII digits of the input, in order.
CleanedDigits == FilterChars(IF args.phone = Null THEN <<>> ELSE args.phone.v, Digits)

\* C16: when "+62" d is a canonical number, "+62" d, "62" d, "0" d and
\* (for d starting with 8) d itself, with spaces, hyphens or parentheses
\* inserted, all normalize to "+62" d; an input whose cleaned digits start
\* with none of 62, 0 or 8 normalizes to null.
C16_SpellingsNormalizeAlike ==
  pc = "phone_done" =>
    /\ ( /\ MobileDigits(args.body) \/ LandlineDigits(args.body)
         /\ \/ args.start \in {<<"+", "6", "2">>, <<"6", "2">>, <<"0">>}
            \/ args.start = <<>> /\ args.body[1] = "8" )
       => result = Str(<<"+", "6", "2">> \o args.body)
    /\ ( /\ ~StartsWith(CleanedDigits, <<"6", "2">>)
         /\ ~StartsWith(CleanedDigits, <<"0">>)
         /\ ~StartsWith(CleanedDigits, <<"8">>) )
       => result = Null

\* C16 witness: a bare mobile number written with hyphens, a landline
\* number that itself starts with 62 written with a leading 0, and an
\* input starting with 1.
C16_Witness ==
  /\ pc = "phone_done"
  /\ args.start = <<>> /\ args.body = BodyMobileShortest /\ args.style = "hyphens"
  /\ args.phone = Str(<<"8", "1", "2", "3", "-", "4", "5", "6", "7", "-", "8">>)
  /\ result = Str(<<"+", "6", "2", "8", "1", "2", "3", "4", "5", "6", "7", "8">>)

\* ------------------------------------------------------------ calculate_name_similarity

\* Names that normalize to the empty string: no name, a blank, a bare
\* entity type, punctuation only.
NameEmpty == <<>>
NameBlank == <<" ">>
NameEntityOnly == <<"P", "T", ".">>
NamePunctuation == <<"&", " ", "-">>

NameBaliPool == <<"B", "a", "l", "i", " ", "P", "o", "o", "l">>
NameBaliPools == <<"b", "a", "l", "i", " ", "p", "o", "o", "l", "s">>

SimilarityNames ==
  {NameEmpty, NameBlank, NameEntityOnly, NamePunctuation, NameBaliPool,
   NameBaliPools, NamePool.v, NamePool2.v, NameTile.v}

InitName ==
  /\ workers = <<>>
  /\ args \in [name1 : SimilarityNames, name2 : SimilarityNames]
  /\ pc = "name_ready"
  /\ result = Null

\* calculate_name_similarity(name1, name2)
CallNameSimilarity ==
  /\ pc = "name_ready"
  /\ result' = calculate_name_similarity(args.name1, args.name2)
  /\ pc' = "name_done"
  /\ UNCHANGED <<workers, args>>

NextName == CallNameSimilarity

SpecName == InitName /\ [][NextName]_vars

\* C17 as stated: the similarity of a name with itself is 1.0 when its
\* normalized form is non-empty and 0.0 when it is empty; two names that
\* both normalize to the empty string score 0.0.
C17_SelfSimilarity ==
  pc = "name_done" =>
    LET norm1 == normalize_business_name(args.name1)
        norm2 == normalize_business_name(args.name2)
    IN /\ (args.name1 = args.name2 /\ norm1 # <<>>) => result[1] = result[2]
       /\ (norm1 = <<>> /\ norm2 = <<>>) => result[1] = 0

\* ------------------------------------------------------------ CircuitBreaker

\* CircuitBreaker.__init__: the fields of a new breaker.
CircuitBreaker(failure_threshold, timeout) ==
  [failure_threshold |-> failure_threshold, timeout |-> timeout,
   _failure_count |-> 0, _last_failure_time |-> 0, _state |-> "CLOSED"]

\* The timeout counted as elapsed from the very second it ends.
TimedOut_inclusive(self, now) == now - self._last_failure_time >= self.timeout

\* time.time() - self._last_failure_time > self.timeout
TimedOut(self, now) == now - self._last_failure_time > self.timeout

\* The head of call and call_async: the breaker after it, and whether
\* CircuitBreakerError is raised.
Admit(self, now) ==
  IF self._state = "OPEN"
  THEN IF TimedOut(self, now)
       THEN [self |-> [self EXCEPT !._state = "HALF_OPEN", !._failure_count = 0],
             rejected |-> FALSE]
       ELSE [self |-> self, rejected |-> TRUE]
  ELSE [self |-> self, rejected |-> FALSE]

\* The wrapped function returned, the failure count reset in every state.
OnReturn_reset(self) == [self EXCEPT !._state = "CLOSED", !._failure_count = 0]

\* The wrapped function returned.
OnReturn(self) ==
  IF self._state = "HALF_OPEN"
  THEN [self EXCEPT !._state = "CLOSED", !._failure_count = 0]
  ELSE self

\* The wrapped function raised self.expected_exception.
OnExpectedException(self, now) ==
  LET counted == [self EXCEPT !._failure_count = self._failure_count + 1,
                              !._last_failure_time = now]
  IN IF counted._failure_count >= counted.failure_threshold
     THEN [counted EXCEPT !._state = "OPEN"]
     ELSE counted

\* What the wrapped function does: it returns, raises the expected
\* exception, or raises an exception the breaker does not track.
Outcomes == {"returns", "raises_expected", "raises_other"}

\* The breaker after the wrapped function ended.
AfterFunc(self, outcome, now) ==
  CASE outcome = "returns" -> OnReturn(self)
    [] outcome = "raises_expected" -> OnExpectedException(self, now)
    [] outcome = "raises_other" -> self

\* What the caller sees.
Seen(outcome) ==
  CASE outcome = "returns" -> "returned"
    [] outcome = "raises_expected" -> "raised"
    [] outcome = "raises_other" -> "raised_other"

\* The coroutines that use call_async.
AsyncCallers == {"c1", "c2"}

\* The seconds of the clock.
MaxTime == 4

FailureThresholds == {1, 2, 3}

Timeouts == {1, 2}

InitBreaker ==
  /\ workers = <<>>
  /\ \E ft \in FailureThresholds, to \in Timeouts :
       args = [self |-> CircuitBreaker(ft, to), now |-> 1]
  /\ pc = [c \in AsyncCallers |-> "idle"]
  /\ result = [caller |-> "none", outcome |-> "none"]

\* time.time() moves on.
Tick ==
  /\ args.now < MaxTime
  /\ args' = [args EXCEPT !.now = args.now + 1]
  /\ UNCHANGED <<workers, pc, result>>

\* breaker.call(func): nothing else runs on the event loop meanwhile.
Call(outcome) ==
  LET admitted == Admit(args.self, args.now)
  IN IF admitted.rejected
     THEN /\ args' = [args EXCEPT !.self = admitted.self]
          /\ result' = [caller |-> "call", outcome |-> "CircuitBreakerError"]
          /\ UNCHANGED <<workers, pc>>
     ELSE /\ args' = [args EXCEPT !.self = AfterFunc(admitted.self, outcome, args.now)]
          /\ result' = [caller |-> "call", outcome |-> Seen(outcome)]
          /\ UNCHANGED <<workers, pc>>

\* breaker.call_async(func) up to `await func(...)`.
CallAsync(c) ==
  /\ pc[c] = "idle"
  /\ LET admitted == Admit(args.self, args.now)
     IN /\ args' = [args EXCEPT !.self = admitted.self]
        /\ IF admitted.rejected
           THEN /\ result' = [caller |-> c, outcome |-> "CircuitBreakerError"]
                /\ pc' = pc
           ELSE /\ result' = [caller |-> c, outcome |-> "awaiting"]
                /\ pc' = [pc EXCEPT ![c] = "awaiting"]
  /\ UNCHANGED workers

\* `await func(...)` ends and call_async runs to its end.
FuncDone(c, outcome) ==
  /\ pc[c] = "awaiting"
  /\ args' = [args EXCEPT !.self = AfterFunc(args.self, outcome, args.now)]
  /\ result' = [caller |-> c, outcome |-> Seen(outcome)]
  /\ pc' = [pc EXCEPT ![c] = "idle"]
  /\ UNCHANGED workers

NextBreaker ==
  \/ Tick
  \/ \E outcome \in Outcomes : Call(outcome)
  \/ \E c \in AsyncCallers : CallAsync(c)
  \/ \E c \in AsyncCallers, outcome \in Outcomes : FuncDone(c, outcome)

SpecBreaker == InitBreaker /\ [][NextBreaker]_vars

\* A step in which the wrapped function ends in the given way.
FuncEnds(outcome) ==
  \/ Call(outcome) /\ ~Admit(args.self, args.now).rejected
  \/ \E c \in AsyncCallers : FuncDone(c, outcome)

\* C25 as stated: a call that fails with the expected exception while the
\* breaker is HALF_OPEN moves it to OPEN, whatever the failure threshold; a
\* call that succeeds while HALF_OPEN moves it to CLOSED with the failure
\* count reset to 0.
C25_HalfOpenCallDecides ==
  [][/\ (args.self._state = "HALF_OPEN" /\ FuncEnds("raises_expected"))
          => args'.self._state = "OPEN"
     /\ (args.self._state = "HALF_OPEN" /\ FuncEnds("returns"))
          => (args'.self._state = "CLOSED" /\ args'.self._failure_count = 0)]_vars

\* A step that enters call or call_async.
Enters == (\E outcome \in Outcomes : Call(outcome)) \/ (\E c \in AsyncCallers : CallAsync(c))

\* C26: while the breaker is OPEN and no more than `timeout` seconds have
\* passed since the last recorded failure, call and call_async raise
\* CircuitBreakerError without invoking the wrapped function and leave the
\* state, the failure count and the last-failure time as they are; a call
\* made after the timeout has elapsed moves the breaker to HALF_OPEN (the
\* failure count at 0) and invokes the wrapped function.
C26_OpenRejectsUntilTimeout ==
  [][(Enters /\ args.self._state = "OPEN") =>
       IF args.now - args.self._last_failure_time <= args.self.timeout
       THEN /\ result'.outcome = "CircuitBreakerError"
            /\ args'.self = args.self
            /\ pc' = pc
       ELSE LET half == [args.self EXCEPT !._state = "HALF_OPEN", !._failure_count = 0]
            IN \/ /\ result'.caller \in AsyncCallers
                  /\ result'.outcome = "awaiting"
                  /\ pc'[result'.caller] = "awaiting" /\ pc[result'.caller] = "idle"
                  /\ args'.self = half
               \/ /\ result'.caller = "call"
                  /\ \/ result'.outcome = "returned"
                        /\ args'.self = [half EXCEPT !._state = "CLOSED"]
                     \/ result'.outcome = "raised_other" /\ args'.self = half
                     \/ /\ result'.outcome = "raised"
                        /\ args'.self._failure_count = 1
                        /\ args'.self._last_failure_time = args.now]_vars

\* C26 witness: a call made exactly `timeout` seconds after the last
\* failure is rejected and the breaker is still OPEN.
C26_Witness ==
  /\ result.outcome = "CircuitBreakerError"
  /\ args.self._state = "OPEN"
  /\ args.now - args.self._last_failure_time = args.self.timeout
  /\ args.self._failure_count >= args.self.failure_threshold

\* C30: the state is CLOSED, OPEN or HALF_OPEN; OPEN implies a failure
\* count of at least failure_threshold and CLOSED a failure count below it;
\* a success while CLOSED leaves the failure count, and a failure while
\* CLOSED adds one to it and opens the breaker exactly when the count
\* reaches failure_threshold.
C30_CountMatchesState ==
  /\ [](/\ args.self._state \in {"CLOSED", "OPEN", "HALF_OPEN"}
        /\ args.self._state = "OPEN"
             => args.self._failure_count >= args.self.failure_threshold
        /\ args.self._state = "CLOSED"
             => args.self._failure_count < args.self.failure_threshold)
  /\ [][/\ (args.self._state = "CLOSED" /\ FuncEnds("returns"))
             => args'.self = args.self
        /\ (args.self._state = "CLOSED" /\ FuncEnds("raises_expected"))
             => /\ args'.self._failure_count = args.self._failure_count + 1
                /\ (args'.self._failure_count >= args.self.failure_threshold)
                     <=> args'.self._state = "OPEN"]_vars

\* C30 witness: with a threshold of 3 the breaker is OPEN after three
\* failures, a call having returned in between.
C30_Witness ==
  /\ args.self.failure_threshold = 3
  /\ args.self._state = "OPEN"
  /\ args.self._failure_count = 3
  /\ result.outcome = "raised"
  /\ pc["c1"] = "awaiting"

\* ------------------------------------------------------------ calculate_budget_relevance

\* Prices around the edges of the budget ranges, in IDR.
BudgetPrices ==
  {Null, Num(0), Num(1), Num(40000000), Num(49999999), Num(50000000), Num(50000001),
   Num(100000000), Num(149999999), Num(150000000), Num(150000001), Num(200000000)}

\* The budget ranges of a request: none, empty, the three named ones and an
\* unknown name.
BudgetRangeInputs ==
  {Null, Atom(""), Atom("low"), Atom("medium"), Atom("high"), Atom("luxury")}

InitBudget ==
  /\ workers = <<>>
  /\ args \in [worker_price : BudgetPrices, budget_range : BudgetRangeInputs]
  /\ pc = "budget_ready"
  /\ result = Null

\* calculate_budget_relevance(worker_price, budget_range)
CallBudgetRelevance ==
  /\ pc = "budget_ready"
  /\ result' = Num(calculate_budget_relevance(args.worker_price, args.budget_range))
  /\ pc' = "budget_done"
  /\ UNCHANGED <<workers, args>>

NextBudget == CallBudgetRelevance

SpecBudget == InitBudget /\ [][NextBudget]_vars

\* The half-open bucket [min, max) of a named range.
InBucket(price, budget_range) ==
  CASE budget_range = Atom("low") -> 0 <= price /\ price < 50000000
    [] budget_range = Atom("medium") -> 50000000 <= price /\ price < 150000000
    [] budget_range = Atom("high") -> 150000000 <= price

\* C21 as stated: with a named budget range and a worker price, the budget
\* component is 1.0 exactly when the price lies in the half-open bucket
\* [min, max) of the range (low [0, 50M), medium [50M, 150M), high
\* [150M, infinity)) and 0.3 otherwise; a price of exactly 50,000,000 scores
\* 0.3 against "low" and 1.0 against "medium".
C21_HalfOpenBuckets ==
  (/\ pc = "budget_done"
   /\ args.budget_range \in {Atom("low"), Atom("medium"), Atom("high")}
   /\ args.worker_price # Null /\ args.worker_price.v > 0)
  => result = Num(IF InBucket(args.worker_price.v, args.budget_range) THEN 10 ELSE 3)

\* ------------------------------------------------------------ calculate_overall_rank_score

\* Workers that differ in their three price fields only.
PriceProfiles ==
  {Profile([trust_score |-> Num(85), location |-> LocCanggu,
            specializations |-> List(<<Atom("pool")>>),
            daily_rate_idr |-> d, price_idr_per_day |-> p, olx_price_idr |-> o]) :
     d \in {Absent, Null, Num(0), Num(40000000)},
     p \in {Absent, Null, Num(0), Num(100000000)},
     o \in {Absent, Null, Num(0), Num(200000000)}}

InitScore ==
  /\ \E w \in PriceProfiles : workers = <<w>>
  /\ \E b \in {Null, Atom("low"), Atom("medium"), Atom("high")} :
       args = [required_specialization |-> Atom("pool"),
               requested_location |-> LocCanggu, budget_range |-> b]
  /\ pc = "score_ready"
  /\ result = Null

\* calculate_overall_rank_score(worker, required_specialization,
\*                              requested_location, budget_range)
CallOverallRankScore ==
  /\ pc = "score_ready"
  /\ result' = calculate_overall_rank_score(workers[1], args.required_specialization,
                                            args.requested_location, args.budget_range)
  /\ pc' = "score_done"
  /\ UNCHANGED <<workers, args>>

NextScore == CallOverallRankScore

SpecScore == InitScore /\ [][NextScore]_vars

\* The first value that is not None among the three price fields, None
\* when there is none.
FirstNonNullPrice(worker) ==
  IF Get(worker, "daily_rate_idr") # Null THEN Get(worker, "daily_rate_idr")
  ELSE IF Get(worker, "price_idr_per_day") # Null THEN Get(worker, "price_idr_per_day")
  ELSE Get(worker, "olx_price_idr")

\* The budget component inside a score, in tenths: what is left of the
\* score once the trust, location and specialization parts are taken away.
BudgetComponent(worker, score) ==
  (score.v - worker["trust_score"].v * 5
     - calculate_location_relevance(worker["location"], args.requested_location) * 20
     - calculate_specialization_match(worker["specializations"],
                                      args.required_specialization) * 20) \div 10

\* C22 as stated: the price used for the budget component is the first
\* non-null value among daily_rate_idr, price_idr_per_day and olx_price_idr,
\* a present 0 included; the component is 0.5 only when no budget range is
\* given or all three fields are null or absent.
C22_FirstNonNullPrice ==
  pc = "score_done" =>
    LET price == FirstNonNullPrice(workers[1])
    IN BudgetComponent(workers[1], result) =
         IF args.budget_range = Null \/ price = Null THEN 5
         ELSE IF InBucket(price.v, args.budget_range) THEN 10 ELSE 3

\* ------------------------------------------------------------ calculate_location_relevance

LocBlank == Str(<<" ">>)
LocCangguUpper == Str(<<"C", "A", "N", "G", "G", "U", " ">>)
LocNorthCanggu == Str(<<"N", "o", "r", "t", "h", " ", "C", "a", "n", "g", "g", "u">>)
LocKuta == Str(<<"K", "u", "t", "a">>)
LocDenpasar == Str(<<"D", "e", "n", "p", "a", "s", "a", "r">>)
LocSanur == Str(<<"S", "a", "n", "u", "r">>)
LocLovina == Str(<<"L", "o", "v", "i", "n", "a">>)
LocJakarta == Str(<<"J", "a", "k", "a", "r", "t", "a">>)
\* A location that names areas of two groups, south then east.
LocKutaUbud == Str(<<"K", "u", "t", "a", " ", "/", " ", "U", "b", "u", "d">>)
\* The same with the groups in the other order.
LocUbudKuta == Str(<<"U", "b", "u", "d", " ", "/", " ", "K", "u", "t", "a">>)

\* The locations of workers and requests: missing, empty, blank, areas of
\* every group, an unknown place, an address around an area and locations
\* naming two areas.
RelevanceLocations ==
  {Null, Str(<<>>), LocBlank, LocCanggu, LocCangguUpper, LocNorthCanggu, LocSeminyak,
   LocKuta, LocDenpasar, LocSanur, LocUbud, LocUbudRoad, LocLovina, LocJakarta,
   LocKutaUbud, LocUbudKuta}

InitLocation ==
  /\ workers = <<>>
  /\ args \in [worker_location : RelevanceLocations,
               requested_location : RelevanceLocations]
  /\ pc = "location_ready"
  /\ result = Null

\* calculate_location_relevance(worker_location, requested_location)
CallLocationRelevance ==
  /\ pc = "location_ready"
  /\ result' = Num(calculate_location_relevance(args.worker_location,
                                                args.requested_location))
  /\ pc' = "location_done"
  /\ UNCHANGED <<workers, args>>

NextLocation == CallLocationRelevance

SpecLocation == InitLocation /\ [][NextLocation]_vars

\* The region groups an area of which occurs in a lower-cased location.
GroupsOf(loc) ==
  {g \in 1..Len(BALI_AREA_GROUPS) :
     \E area \in BALI_AREA_GROUPS[g].areas : Contains(loc, area)}

\* C23 as stated: the relevance is 0.3 when either location is missing or
\* empty; otherwise 1.0 when the lower-cased trimmed locations are equal or
\* one is a substring of the other; otherwise 0.8 when an area name of one
\* and the same region group is contained in both location strings;
\* otherwise 0.5. The result is always one of 0.3, 0.5, 0.8, 1.0.
C23_LocationRelevance ==
  pc = "location_done" =>
    /\ result.v \in {3, 5, 8, 10}
    /\ IF ~Truthy(args.worker_location) \/ ~Truthy(args.requested_location)
       THEN result.v = 3
       ELSE LET worker_loc == Strip(Lower(args.worker_location.v))
                requested_loc == Strip(Lower(args.requested_location.v))
            IN IF \/ worker_loc = requested_loc
                  \/ Contains(requested_loc, worker_loc)
                  \/ Contains(worker_loc, requested_loc)
               THEN result.v = 10
               ELSE IF GroupsOf(worker_loc) \cap GroupsOf(requested_loc) # {}
               THEN result.v = 8
               ELSE result.v = 5

\* ------------------------------------------------------------ background jobs

\* popular_specializations
popular_specializations == <<Atom("pool"), Atom("bathroom"), Atom("kitchen"), Atom("general")>>

\* The rows one run of the trust recalculation fetches, at most.
MaxStale == 3

\* response.data: rows of the workers table, each with its primary key.
StaleWorkers(n) == [k \in 1..n |-> [id |-> Num(k)]]

\* An except clause that lets the exception through.
AfterException_propagate(e) == "raised"

\* `except Exception as e: print(...); continue`: the loop goes on.
AfterException(e) == "looping"

\* The handler of the recalculation formats worker['id'] into its message,
\* which raises KeyError for a row without an id.
HandlerRaises(worker) == "id" \notin DOMAIN worker

\* One pass of either loop has ended in the given way: the next position.
AfterItem(outcome, handler_raises) ==
  IF outcome \in {"returns", "updated"} THEN "looping"
  ELSE IF handler_raises THEN "raised"
  ELSE AfterException(outcome)

InitJobs ==
  /\ \E job \in {"refresh_popular_workers", "recalculate_stale_trust_scores"} :
       /\ args = [job |-> job]
       /\ IF job = "refresh_popular_workers" THEN workers = <<>>
          ELSE \E n \in 0..MaxStale : workers = StaleWorkers(n)
  /\ pc = "job_ready"
  /\ result = [attempted |-> <<>>, outcomes |-> <<>>, updated |-> <<>>]

\* One pass of the loop of refresh_popular_workers:
\* _refresh_specialization_cache returns or raises.
RefreshSpecialization ==
  /\ args.job = "refresh_popular_workers"
  /\ pc \in {"job_ready", "looping"}
  /\ Len(result.attempted) < Len(popular_specializations)
  /\ \E outcome \in {"returns", "raises"} :
       /\ result' = [result EXCEPT
            !.attempted = Append(@, popular_specializations[Len(result.attempted) + 1]),
            !.outcomes = Append(@, outcome)]
       /\ pc' = AfterItem(outcome, FALSE)
  /\ UNCHANGED <<workers, args>>

\* The loop of refresh_popular_workers is over.
RefreshCompleted ==
  /\ args.job = "refresh_popular_workers"
  /\ pc \in {"job_ready", "looping"}
  /\ Len(result.attempted) = Len(popular_specializations)
  /\ pc' = "returned"
  /\ UNCHANGED <<workers, args, result>>

\* One pass of the loop of recalculate_stale_trust_scores:
\* calculate_trust_score raises, or the update raises, or the row is written.
RecalculateWorker ==
  /\ args.job = "recalculate_stale_trust_scores"
  /\ pc \in {"job_ready", "looping"}
  /\ Len(result.attempted) < Len(workers)
  /\ LET worker == workers[Len(result.attempted) + 1]
     IN \E outcome \in {"updated", "trust_raises", "update_raises"} :
          /\ result' = [result EXCEPT
               !.attempted = Append(@, worker),
               !.outcomes = Append(@, outcome),
               !.updated = IF outcome = "updated" THEN Append(@, worker["id"]) ELSE @]
          /\ pc' = AfterItem(outcome, HandlerRaises(worker))
  /\ UNCHANGED <<workers, args>>

\* No stale worker was fetched, or the loop is over.
RecalculateCompleted ==
  /\ args.job = "recalculate_stale_trust_scores"
  /\ pc \in {"job_ready", "looping"}
  /\ Len(result.attempted) = Len(workers)
  /\ pc' = "returned"
  /\ UNCHANGED <<workers, args, result>>

NextJobs ==
  \/ RefreshSpecialization
  \/ RefreshCompleted
  \/ RecalculateWorker
  \/ RecalculateCompleted

SpecJobs == InitJobs /\ [][NextJobs]_vars

\* C27: neither job lets the failure of one item reach its caller; when
\* refresh_popular_workers has returned it has attempted pool, bathroom,
\* kitchen and general, in that order, whichever of them raised; when
\* recalculate_stale_trust_scores has returned it has processed every
\* fetched worker, and it wrote an update for a worker only when that
\* worker's trust calculation succeeded.
C27_JobsCatchAndContinue ==
  /\ pc # "raised"
  /\ (pc = "returned" /\ args.job = "refresh_popular_workers")
       => result.attempted = popular_specializations
  /\ (pc = "returned" /\ args.job = "recalculate_stale_trust_scores")
       => result.attempted = workers
  /\ \A k \in 1..Len(result.updated) :
       \E j \in 1..Len(result.attempted) :
         /\ result.attempted[j]["id"] = result.updated[k]
         /\ result.outcomes[j] # "trust_raises"

\* C27 witness: the recalculation has returned after three workers; the
\* trust calculation raised for the first, and the other two were written.
C27_Witness ==
  /\ pc = "returned"
  /\ args.job = "recalculate_stale_trust_scores"
  /\ Len(workers) = 3
  /\ result.outcomes = <<"trust_raises", "updated", "updated">>
  /\ result.updated = <<Num(2), Num(3)>>

\* ------------------------------------------------------------ concurrent rank_workers

\* The callers that rank the same list at the same time.
RankCallers == {"r1", "r2"}

\* Workers of one trade that differ in trust score and place.
RaceProfiles ==
  {Profile([trust_score |-> Num(t), location |-> l,
            specializations |-> List(<<Atom("general")>>)]) :
     t \in {70, 80}, l \in {LocCanggu, LocUbud}}

\* worker["ranking_score"] = score: written into the record of the list.
WriteScore(ws, k, score) == [j \in 1..Len(ws) |->
                               IF j = k THEN Put(ws[j], "ranking_score", score)
                               ELSE ws[j]] \o <<>>

\* The score rank_workers computes for a record under a caller's request.
ScoreFor(worker, request) ==
  calculate_overall_rank_score(worker,
                               map_project_type_to_specialization(request.project_type),
                               request.location, request.budget_range)

\* sorted(filtered_workers, key=ranking_score, reverse=True) over the
\* records of the shared list: the positions of the records in the list,
\* in sorted order.
SortedRefs(ws, kept) ==
  Once(SortDescending([x \in 1..Len(kept) |-> Put(ws[kept[x]], "ref", Num(kept[x]))] \o <<>>,
                      1, <<>>),
       LAMBDA ranked_workers :
         [x \in 1..Len(ranked_workers) |-> ranked_workers[x]["ref"].v] \o <<>>)

\* Two requests with different locations arrive for one list of two workers.
InitRace ==
  /\ workers \in [1..2 -> RaceProfiles]
  /\ \E l \in {LocUbud, LocSeminyak} :
       args = [c \in RankCallers |->
                 [project_type |-> ProjectPool,
                  location |-> IF c = "r1" THEN LocCanggu ELSE l,
                  min_trust_score |-> 40, budget_range |-> Null, max_results |-> 10]]
  /\ pc = [c \in RankCallers |-> [at |-> "ready", filtered |-> <<>>, done |-> 0]]
  /\ result = [c \in RankCallers |-> Null]

\* filtered_workers = [w for w in workers if w.get("trust_score", 0) >= min_trust_score]
RaceFilter(c) ==
  /\ pc[c].at = "ready"
  /\ pc' = [pc EXCEPT ![c] = [at |-> "scoring",
                              filtered |-> FilteredIndices(workers, args[c].min_trust_score),
                              done |-> 0]]
  /\ UNCHANGED <<workers, args, result>>

\* One pass of `for worker in filtered_workers: worker["ranking_score"] = ...`
RaceScore(c) ==
  /\ pc[c].at = "scoring"
  /\ pc[c].done < Len(pc[c].filtered)
  /\ LET k == pc[c].filtered[pc[c].done + 1]
     IN workers' = WriteScore(workers, k, ScoreFor(workers[k], args[c]))
  /\ pc' = [pc EXCEPT ![c].done = @ + 1]
  /\ UNCHANGED <<args, result>>

\* ranked_workers = sorted(...); return ranked_workers[:max_results]: the
\* list returned holds the records of the shared list, not copies.
RaceSortAndReturn(c) ==
  /\ pc[c].at = "scoring"
  /\ pc[c].done = Len(pc[c].filtered)
  /\ result' = [result EXCEPT
       ![c] = List(Slice(SortedRefs(workers, pc[c].filtered), args[c].max_results))]
  /\ pc' = [pc EXCEPT ![c].at = "returned"]
  /\ UNCHANGED <<workers, args>>

NextRace ==
  \/ \E c \in RankCallers : RaceFilter(c)
  \/ \E c \in RankCallers : RaceScore(c)
  \/ \E c \in RankCallers : RaceSortAndReturn(c)

SpecRace == InitRace /\ [][NextRace]_vars

\* The list a caller received is in descending order of the scores its
\* records hold now.
StillDescending(c) ==
  \A x \in 1..(Len(result[c].v) - 1) :
    workers[result[c].v[x]]["ranking_score"].v
      >= workers[result[c].v[x + 1]]["ranking_score"].v

\* A record of the list a caller received holds a score that is not the
\* one its own request gives: the other invocation wrote it.
CarriesForeignScore(c) ==
  \E x \in 1..Len(result[c].v) :
    workers[result[c].v[x]]["ranking_score"] # ScoreFor(workers[result[c].v[x]], args[c])

\* C24: two callers rank the same in-memory list with different request
\* parameters; ranking_score is written into the records of that list, so
\* every record a caller received holds a score, and the list a caller
\* received is out of descending order of the scores its records hold only
\* when it carries ranking_score values written by the other invocation;
\* such a state is reachable.
C24_UnsortedOnlyByForeignScores ==
  \A c \in RankCallers :
    result[c] # Null =>
      /\ \A x \in 1..Len(result[c].v) : "ranking_score" \in DOMAIN workers[result[c].v[x]]
      /\ ~StillDescending(c) => CarriesForeignScore(c)

\* C24 witness: r1 has received its list and r2 is still scoring; every
\* score in r1's list is the one r2's request gives, and the list is no
\* longer in descending order.
C24_Witness ==
  /\ result["r1"] # Null
  /\ pc["r2"].at = "scoring"
  /\ Len(result["r1"].v) = 2
  /\ \A x \in 1..2 :
       workers[result["r1"].v[x]]["ranking_score"]
         = ScoreFor(workers[result["r1"].v[x]], args["r2"])
  /\ ~StillDescending("r1")

====
